---- MODULE Spec2Model ----
(***************************************************************************)
(* A model of difftrack: the list and dict diff compaction of              *)
(* compaction.py, the BoundedListDiffHandler of utils.py with the          *)
(* ListListener of listeners.py behind it, the Dispatcher of               *)
(* dispatchers.py, the listeners of listeners.py, and the squash           *)
(* functions and data_mapper of compaction.py and utils.py.                *)
(*                                                                         *)
(* The specifications share the module's variables; each one drives its    *)
(* own component and leaves the variables of the others at their initial   *)
(* values:                                                                 *)
(*   SpecCompact     - compact_list_diffs folded over a valid diff list    *)
(*   SpecBounded     - BoundedListDiffHandler.__call__ and the inner       *)
(*                     ListListener.get_new_diffs                          *)
(*   SpecDispatch    - Dispatcher.add_listener / apply_diff with           *)
(*                     re-entrant listeners                                *)
(*   SpecBatch       - add_listener refusals, finalize_batch and the       *)
(*                     `with dispatcher:` scope                            *)
(*   SpecListener    - ListListener / DictListener __call__ and            *)
(*                     get_new_diffs                                       *)
(*   SpecYield       - the lazy consumer yield_new_diffs                   *)
(*   SpecDictCompact - compact_dict_diffs folded over a valid diff list    *)
(*   SpecSquash      - the generators squash_list_diffs and                *)
(*                     squash_difftrack_results on any diff list           *)
(*   SpecMapper      - a listener behind data_mapper                       *)
(*   SpecChain       - dispatcher, BoundedListDiffHandler, data_mapper and *)
(*                     the innermost listener, with `with` scopes          *)
(*   SpecRecover     - the handler with max_size 2, every edit recorded    *)
(*   SpecFanOut      - a ListDispatcher with several ListListeners         *)
(*   SpecKeyError    - a DictListener fed any SET / DELETE, valid or not   *)
(***************************************************************************)
EXTENDS Integers, Sequences, FiniteSets, TLC

(***************************************************************************)
(* Bounds of the model.                                                    *)
(***************************************************************************)
\* longest diff list handed to compact_list_diffs
MaxOps == 4
\* longest starting sequence S0 the diff list is replayed on
MaxInit == 2
\* largest max_size a BoundedListDiffHandler is constructed with
MaxWindow == 2
\* longest list the producer grows in front of BoundedListDiffHandler
MaxFull == 3
\* most diffs the inner listener buffers before it is flushed
MaxPending == 4
\* payloads the producer inserts and assigns
Payloads == {1, 2}
\* most listeners registered with a Dispatcher
MaxListeners == 2
\* most diffs handed to Dispatcher.apply_diff in one run
MaxEmits == 10
\* most diffs handed to Dispatcher.apply_diff in one run with scoped batches
MaxBatchEmits == 3
\* most add_listener calls that are refused in one run
MaxRejected == 1
\* most diffs a Listener buffers between two consumer calls
MaxBuffered == 3
\* longest list, largest dict a Listener's producer builds
MaxItems == 2
\* squash: the longest argument and the largest index in it
MaxSquash == 3
MaxIndex == 2
\* the longest list of edits sent through the handler of SpecRecover
MaxScript == 5
\* edits the producer of SpecFanOut sends to its dispatcher
MaxFanOutEmits == 3
\* keys the producer of a DictListener sets and deletes
Keys == {"x", "y"}

(***************************************************************************)
(* types.py: the diff record (kind, index, payload).                       *)
(***************************************************************************)
INSERT == "INSERT"
REPLACE == "REPLACE"
DELETE == "DELETE"
ListDiff == {INSERT, REPLACE, DELETE}
\* Python's None, the payload of a DELETE
None == 0

\* types.py:33-36, the positions of the values in a diff tuple (a TLA+
\* tuple is indexed from 1)
TYPE == 1
INDEX == 2
DATA == 3

Diff(dtype, index, data) == <<dtype, index, data>>

(***************************************************************************)
(* Generic helpers: Python list and dict primitives.                       *)
(***************************************************************************)
\* list.insert(i, v) for 0 <= i <= len(s); i is 0-based
ListInsert(s, i, v) == SubSeq(s, 1, i) \o <<v>> \o SubSeq(s, i + 1, Len(s))
\* del s[i]; i is 0-based
ListDel(s, i) == SubSeq(s, 1, i) \o SubSeq(s, i + 2, Len(s))
\* s[i] = v; i is 0-based
ListSet(s, i, v) == [s EXCEPT ![i + 1] = v]

\* d[k] = v
DictSet(d, k, v) == [x \in (DOMAIN d) \cup {k} |-> IF x = k THEN v ELSE d[x]]
\* del d[k]
DictDel(d, k) == [x \in (DOMAIN d) \ {k} |-> d[x]]
EmptyDict == [x \in {} |-> 0]

RECURSIVE SortedSeq(_)
\* the elements of a finite set of integers in ascending order
SortedSeq(S) ==
    IF S = {} THEN <<>>
    ELSE LET m == CHOOSE x \in S : \A y \in S : x <= y
         IN <<m>> \o SortedSeq(S \ {m})

\* SortedDict.keys()[:] - a snapshot of the keys in ascending order
SortedKeys(d) == SortedSeq(DOMAIN d)

Reverse(s) == [i \in 1..Len(s) |-> s[Len(s) + 1 - i]]

(***************************************************************************)
(* Replaying a diff list on a sequence (ListListener._apply_diff), with    *)
(* the index conditions of the sequence semantics made explicit: ok is     *)
(* FALSE as soon as one index is out of range.                             *)
(***************************************************************************)
ValidOn(op, s) ==
    IF op[TYPE] = INSERT THEN op[INDEX] >= 0 /\ op[INDEX] <= Len(s)
    ELSE op[INDEX] >= 0 /\ op[INDEX] < Len(s)

ApplyOne(op, s) ==
    IF op[TYPE] = INSERT THEN ListInsert(s, op[INDEX], op[DATA])
    ELSE IF op[TYPE] = REPLACE THEN ListSet(s, op[INDEX], op[DATA])
    ELSE ListDel(s, op[INDEX])

RECURSIVE Replay(_, _)
Replay(ops, s) ==
    IF ops = <<>> THEN [ok |-> TRUE, list |-> s]
    ELSE IF ~ValidOn(Head(ops), s) THEN [ok |-> FALSE, list |-> s]
    ELSE Replay(Tail(ops), ApplyOne(Head(ops), s))

(***************************************************************************)
(* compaction.py: compact_list_diffs and its helpers.  compacted is the    *)
(* output list (a sequence, so Python's compacted[p] is compacted[p + 1]), *)
(* m is op_index_to_compacted_index.  Each helper returns the pair of      *)
(* objects the Python code mutates in place.                               *)
(***************************************************************************)
CM(c, m) == [compacted |-> c, map |-> m]

RECURSIVE ShiftKeysDown(_, _, _)
\* compaction.py:67-71 (and the identical loop at 129-133): walking the
\* key snapshot in ascending order, every key > op_index moves to key - 1
ShiftKeysDown(keys, op_index, m) ==
    IF keys = <<>> THEN m
    ELSE LET key == Head(keys)
         IN IF key <= op_index
            THEN ShiftKeysDown(Tail(keys), op_index, m)
            ELSE ShiftKeysDown(Tail(keys), op_index,
                               DictDel(DictSet(m, key - 1, m[key]), key))

RECURSIVE ShiftKeysUp(_, _, _)
\* compaction.py:74-78: walking the key snapshot in descending order, every
\* key >= op_index moves to key + 1; the loop stops at the first smaller key
ShiftKeysUp(keys, op_index, m) ==
    IF keys = <<>> THEN m
    ELSE LET key == Head(keys)
         IN IF key < op_index
            THEN m
            ELSE ShiftKeysUp(Tail(keys), op_index,
                             DictDel(DictSet(m, key + 1, m[key]), key))

_append_op(op, compacted, m) ==
    LET shifted ==
            IF op[TYPE] = DELETE
            THEN ShiftKeysDown(SortedKeys(m), op[INDEX], m)
            ELSE IF op[TYPE] = INSERT
            THEN ShiftKeysUp(Reverse(SortedKeys(m)), op[INDEX], m)
            ELSE m
    IN CM(Append(compacted, op), DictSet(shifted, op[INDEX], Len(compacted)))

_remove_from_compacted(index, compacted, m) ==
    CM(ListDel(compacted, index),
       [k \in DOMAIN m |-> IF m[k] >= index THEN m[k] - 1 ELSE m[k]])

RECURSIVE UpdateWalk(_, _, _)
\* compaction.py:152-162: the walk over the entries after
\* position_in_compacted; p is the 0-based position of the entry visited
UpdateWalk(p, deleted_op_index, compacted) ==
    IF p >= Len(compacted) THEN compacted
    ELSE LET compacted_op == compacted[p + 1]
             d == IF compacted_op[TYPE] = INSERT /\ compacted_op[INDEX] <= deleted_op_index
                  THEN deleted_op_index + 1
                  ELSE IF compacted_op[TYPE] = DELETE /\ compacted_op[INDEX] < deleted_op_index
                  THEN deleted_op_index - 1
                  ELSE deleted_op_index
             c == IF compacted_op[INDEX] >= d
                  THEN ListSet(compacted, p,
                               Diff(compacted_op[TYPE], compacted_op[INDEX] - 1, compacted_op[DATA]))
                  ELSE compacted
         IN UpdateWalk(p + 1, d, c)

\* the re-indexing walk replaced by "subtract one from every later entry at
\* or behind the cancelled INSERT", without the running effective index
_update_compacted_on_delete_shortcut(deleted_op_index, position_in_compacted, compacted) ==
    [p \in 1..Len(compacted) |->
        IF p > position_in_compacted + 1 /\ compacted[p][INDEX] >= deleted_op_index
        THEN Diff(compacted[p][TYPE], compacted[p][INDEX] - 1, compacted[p][DATA])
        ELSE compacted[p]]

_update_compacted_on_delete(deleted_op_index, position_in_compacted, compacted) ==
    UpdateWalk(position_in_compacted + 1, deleted_op_index, compacted)

\* _perform_replace that never merges: every REPLACE is appended
_perform_replace_always_appends(op, compacted, m) ==
    _append_op(op, compacted, m)

\* _perform_replace without the test for a DELETE entry: the payload is
\* merged into whatever entry the index is bound to
_perform_replace_over_delete(op, compacted, m) ==
    IF op[INDEX] \notin DOMAIN m
    THEN _append_op(op, compacted, m)
    ELSE LET position_in_compacted == m[op[INDEX]]
             replaced_op == compacted[position_in_compacted + 1]
         IN CM(ListSet(compacted, position_in_compacted,
                       Diff(replaced_op[TYPE], replaced_op[INDEX], op[DATA])),
               m)

\* _perform_replace that gives the merged entry the index of the REPLACE
_perform_replace_new_index(op, compacted, m) ==
    IF op[INDEX] \notin DOMAIN m
    THEN _append_op(op, compacted, m)
    ELSE LET position_in_compacted == m[op[INDEX]]
             replaced_op == compacted[position_in_compacted + 1]
         IN IF replaced_op[TYPE] = DELETE
            THEN _append_op(op, compacted, m)
            ELSE CM(ListSet(compacted, position_in_compacted,
                            Diff(replaced_op[TYPE], op[INDEX], op[DATA])),
                    m)

_perform_replace(op, compacted, m) ==
    IF op[INDEX] \notin DOMAIN m
    THEN _append_op(op, compacted, m)
    ELSE LET position_in_compacted == m[op[INDEX]]
             replaced_op == compacted[position_in_compacted + 1]
         IN IF replaced_op[TYPE] = DELETE
            THEN _append_op(op, compacted, m)
            ELSE CM(ListSet(compacted, position_in_compacted,
                            Diff(replaced_op[TYPE], replaced_op[INDEX], op[DATA])),
                    m)

\* _perform_delete whose REPLACE branch forgets to drop the REPLACE entry
_perform_delete_keeps_replace(op, compacted, m) ==
    IF op[INDEX] \notin DOMAIN m
    THEN _append_op(op, compacted, m)
    ELSE LET position_in_compacted == m[op[INDEX]]
             deleted_op == compacted[position_in_compacted + 1]
         IN IF deleted_op[TYPE] = DELETE
            THEN _append_op(op, compacted, m)
            ELSE IF deleted_op[TYPE] = REPLACE
            THEN _append_op(op, compacted, DictDel(m, op[INDEX]))
            ELSE LET u == _update_compacted_on_delete(deleted_op[INDEX],
                                                      position_in_compacted, compacted)
                     r == _remove_from_compacted(position_in_compacted, u, m)
                     md == DictDel(r.map, op[INDEX])
                 IN CM(r.compacted, ShiftKeysDown(SortedKeys(md), op[INDEX], md))

\* _perform_delete without the return after appending an unpaired DELETE:
\* the code below then finds the DELETE it has just bound and appends again
_perform_delete_no_return(op, compacted, m) ==
    IF op[INDEX] \notin DOMAIN m
    THEN LET a == _append_op(op, compacted, m)
         IN _append_op(op, a.compacted, a.map)
    ELSE LET position_in_compacted == m[op[INDEX]]
             deleted_op == compacted[position_in_compacted + 1]
         IN IF deleted_op[TYPE] = DELETE
            THEN _append_op(op, compacted, m)
            ELSE IF deleted_op[TYPE] = REPLACE
            THEN LET r == _remove_from_compacted(position_in_compacted, compacted, m)
                 IN _append_op(op, r.compacted, DictDel(r.map, op[INDEX]))
            ELSE LET u == _update_compacted_on_delete(deleted_op[INDEX],
                                                      position_in_compacted, compacted)
                     r == _remove_from_compacted(position_in_compacted, u, m)
                     md == DictDel(r.map, op[INDEX])
                 IN CM(r.compacted, ShiftKeysDown(SortedKeys(md), op[INDEX], md))

_perform_delete(op, compacted, m) ==
    IF op[INDEX] \notin DOMAIN m
    THEN _append_op(op, compacted, m)
    ELSE LET position_in_compacted == m[op[INDEX]]
             deleted_op == compacted[position_in_compacted + 1]
         IN IF deleted_op[TYPE] = DELETE
            THEN _append_op(op, compacted, m)
            ELSE IF deleted_op[TYPE] = REPLACE
            THEN LET r == _remove_from_compacted(position_in_compacted, compacted, m)
                 IN _append_op(op, r.compacted, DictDel(r.map, op[INDEX]))
            ELSE LET u == _update_compacted_on_delete(deleted_op[INDEX],
                                                      position_in_compacted, compacted)
                     r == _remove_from_compacted(position_in_compacted, u, m)
                     md == DictDel(r.map, op[INDEX])
                 IN CM(r.compacted, ShiftKeysDown(SortedKeys(md), op[INDEX], md))

\* compaction.py:49-55: the body of the loop of compact_list_diffs
CompactStep(op, compacted, m) ==
    IF op[TYPE] = INSERT THEN _append_op(op, compacted, m)
    ELSE IF op[TYPE] = REPLACE THEN _perform_replace(op, compacted, m)
    ELSE _perform_delete(op, compacted, m)

RECURSIVE CompactFold(_, _, _)
CompactFold(ops, compacted, m) ==
    IF ops = <<>> THEN compacted
    ELSE LET r == CompactStep(Head(ops), compacted, m)
         IN CompactFold(Tail(ops), r.compacted, r.map)

compact_list_diffs(ops) == CompactFold(ops, <<>>, EmptyDict)

(***************************************************************************)
(* listeners.py: ListListener.  _apply_diff on a Python list: insert       *)
(* clamps an index behind the end, assignment and del raise IndexError on  *)
(* an index out of range.  ApplyDiffs is the loop of get_new_diffs; when   *)
(* a diff raises, the diffs before it stay applied.                        *)
(***************************************************************************)
Raises(op, data) ==
    op[TYPE] # INSERT /\ ~(op[INDEX] >= 0 /\ op[INDEX] < Len(data))

_apply_diff(op, data) ==
    IF op[TYPE] = INSERT
    THEN ListInsert(data, IF op[INDEX] > Len(data) THEN Len(data) ELSE op[INDEX], op[DATA])
    ELSE IF op[TYPE] = REPLACE THEN ListSet(data, op[INDEX], op[DATA])
    ELSE ListDel(data, op[INDEX])

RECURSIVE ApplyDiffs(_, _)
ApplyDiffs(ops, data) ==
    IF ops = <<>> THEN [raised |-> FALSE, list |-> data]
    ELSE IF Raises(Head(ops), data) THEN [raised |-> TRUE, list |-> data]
    ELSE ApplyDiffs(Tail(ops), _apply_diff(Head(ops), data))

(***************************************************************************)
(* utils.py: BoundedListDiffHandler.__call__, lines 80-95: what is passed  *)
(* on to the inner listener and the new value of _listener_len.            *)
(* full_list is _full_list after the edit has been applied to it.          *)
(***************************************************************************)
\* the window test with the bound included
InWindow_inclusive(index, max_size) == index <= max_size

\* utils.py:81
InWindow(index, max_size) == index < max_size

\* the trim test firing as soon as the listener is full
NeedsTrim_at_limit(listener_len, max_size) == listener_len >= max_size

\* utils.py:86, listener_len already incremented
NeedsTrim(listener_len, max_size) == listener_len > max_size

\* the re-expose test asking for data strictly beyond the window
NeedsExpand_strict(listener_len, full_list, max_size) ==
    listener_len < max_size /\ max_size < Len(full_list)

\* utils.py:92, listener_len already decremented
NeedsExpand(listener_len, full_list, max_size) ==
    listener_len < max_size /\ max_size <= Len(full_list)

\* the trim aimed at the index of the INSERT instead of the end of the window
TrimDiff_at_index(index, max_size) == Diff(DELETE, index, None)

\* utils.py:88; index is the index of the INSERT being handled
TrimDiff(index, max_size) == Diff(DELETE, max_size, None)

\* the re-exposed element put at the front of the window
ExpandDiff_in_front(full_list, max_size) == Diff(INSERT, 0, full_list[max_size])

\* utils.py:94
ExpandDiff(full_list, max_size) == Diff(INSERT, max_size - 1, full_list[max_size])

\* the counter left alone by the diffs the handler adds itself
Forward_uncounted_synthetics(op, full_list, listener_len, max_size) ==
    IF ~InWindow(op[INDEX], max_size)
    THEN [sent |-> <<>>, len |-> listener_len]
    ELSE IF op[TYPE] = INSERT
    THEN IF NeedsTrim(listener_len + 1, max_size)
         THEN [sent |-> <<op, TrimDiff(op[INDEX], max_size)>>, len |-> listener_len + 1]
         ELSE [sent |-> <<op>>, len |-> listener_len + 1]
    ELSE IF op[TYPE] = DELETE
    THEN IF NeedsExpand(listener_len - 1, full_list, max_size)
         THEN [sent |-> <<op, ExpandDiff(full_list, max_size)>>, len |-> listener_len - 1]
         ELSE [sent |-> <<op>>, len |-> listener_len - 1]
    ELSE [sent |-> <<op>>, len |-> listener_len]

\* utils.py:80-95: the diffs passed on and the counter afterwards
Forward(op, full_list, listener_len, max_size) ==
    IF ~InWindow(op[INDEX], max_size)
    THEN [sent |-> <<>>, len |-> listener_len]
    ELSE IF op[TYPE] = INSERT
    THEN IF NeedsTrim(listener_len + 1, max_size)
         THEN [sent |-> <<op, TrimDiff(op[INDEX], max_size)>>, len |-> listener_len + 1 - 1]
         ELSE [sent |-> <<op>>, len |-> listener_len + 1]
    ELSE IF op[TYPE] = DELETE
    THEN IF NeedsExpand(listener_len - 1, full_list, max_size)
         THEN [sent |-> <<op, ExpandDiff(full_list, max_size)>>, len |-> listener_len - 1 + 1]
         ELSE [sent |-> <<op>>, len |-> listener_len - 1]
    ELSE [sent |-> <<op>>, len |-> listener_len]

(***************************************************************************)
(* State.                                                                  *)
(***************************************************************************)
VARIABLES
    \* SpecCompact
    S0,                           \* the starting sequence
    diffs,                        \* the input list consumed so far
    compacted,                    \* compact_list_diffs: the output list
    op_index_to_compacted_index,  \* compact_list_diffs: the helper map
    \* SpecBounded
    _max_size,                    \* BoundedListDiffHandler._max_size
    _full_list,                   \* BoundedListDiffHandler._full_list
    _listener_len,                \* BoundedListDiffHandler._listener_len
    _new_diffs,                   \* the inner ListListener's pending buffer
    _data,                        \* the inner ListListener's snapshot
    inbound,                      \* the edits handled so far: the last one
    forwarded,                    \* the diffs the last __call__ passed on
    prev_forwarded,               \* the last diff passed on before that call
    \* SpecDispatch
    _listeners,                   \* Dispatcher._listeners (listener ids)
    _batch_finalizers,            \* Dispatcher._batch_finalizers (listener ids)
    _active,                      \* Dispatcher._active
    _apply_diff_recursion,        \* Dispatcher._apply_diff_recursion
    _diffs_to_apply,              \* Dispatcher._diffs_to_apply
    _should_finalize,             \* Dispatcher._should_finalize
    pc,                           \* where the outermost apply_diff stands
    diff,                         \* the diff popped by the while loop, if any
    li,                           \* position of the for loop in _listeners
    admitted,                     \* every diff appended to the queue, in order
    received,                     \* per listener: the diffs it was called with
    origin,                       \* per queued diff: the number of the diff that
                                  \* was being delivered when it was emitted,
                                  \* None for a call by the producer
    diff_origin,                  \* the same for the diff popped by the loop
    stack,                        \* the drain loops suspended below the running
                                  \* one: <<diff, li, diff_origin>> each
    asserted,                     \* the assertion of apply_diff has failed
    listener_raised,              \* a call of a listener has raised: its own
                                  \* error, or the AssertionError of a call it
                                  \* made to apply_diff or add_listener
    accepted,                     \* apply_diff calls accepted since the last
                                  \* return of an outermost call
    max_nesting,                  \* most apply_diff frames on the call stack
    \* SpecBatch
    in_scope,                     \* inside `with dispatcher:`
    scope_admitted,               \* a diff was admitted inside the open scope
    popped_since_finalize,        \* a diff left the queue for delivery since
                                  \* the previous finalize_batch call
    fired,                        \* the listeners whose finalize_batch the last
                                  \* Dispatcher.finalize_batch call invoked
    has_hook,                     \* per listener: it has a finalize_batch
    rejected,                     \* add_listener calls refused so far
    \* SpecListener (with _data and _new_diffs above)
    listener_class,               \* "ListListener" or "DictListener"
    dispatched,                   \* the diffs the listener was called with
                                  \* since the last consumer call
    returned,                     \* what the last call returned, if it was
                                  \* get_new_diffs
    gets,                         \* get_new_diffs calls in a row, up to 2
    get_raised,                   \* the last get_new_diffs call raised
    \* SpecYield
    generator,                    \* the generator of yield_new_diffs: "none",
                                  \* "created", "suspended" at its yield, "done"
    yielded,                      \* the diffs the generator has yielded
    created_at,                   \* how many diffs the listener had received
                                  \* when the generator was created
    \* SpecSquash (with diffs above as the argument)
    squash_fn,                    \* the function called: "squash_list_diffs"
                                  \* or "squash_difftrack_results"
    squash_pc,                    \* where its generator stands: "start", "loop",
                                  \* "done", "raised"
    pos,                          \* how many diffs the generator has read
    current_batch,                \* the run being collected
    results,                      \* the records yielded so far
    batches,                      \* the runs those records were made from
    \* SpecChain: dispatcher -> BoundedListDiffHandler -> data_mapper -> innermost
    innermost,                    \* "ListListener" (with an on_finalize_batch
                                  \* callback) or "function"
    wrapped_finalize_batch,       \* the finalize_batch attribute of the mapper's
                                  \* wrapper, "absent" if it has none
    _listener_finalize_batch_function,
                                  \* BoundedListDiffHandler's, "None" if None
    cb_calls,                     \* calls of the on_finalize_batch callback
    exit_raised,                  \* leaving a scope has raised
    \* SpecFanOut: the listeners of one dispatcher
    listener_new_diffs,           \* per listener: Listener._new_diffs
    listener_data                 \* per listener: Listener._data

varsCompact == <<S0, diffs, compacted, op_index_to_compacted_index>>
varsBounded == <<_max_size, _full_list, _listener_len, _new_diffs, _data,
                 inbound, forwarded, prev_forwarded>>
varsQueue == <<_diffs_to_apply, admitted, origin>>
varsLoop == <<pc, diff, li, diff_origin, stack>>
varsRecursion == <<_apply_diff_recursion, asserted, accepted, max_nesting,
                   listener_raised>>
varsListeners == <<_listeners, _batch_finalizers, has_hook, rejected>>
varsFinalize == <<_should_finalize, popped_since_finalize, fired>>
varsScope == <<in_scope, scope_admitted>>
varsDispatch == <<varsQueue, varsLoop, varsRecursion, varsListeners,
                  varsFinalize, varsScope, _active, received>>
varsListener == <<listener_class, dispatched, returned, gets, get_raised>>
varsYield == <<generator, yielded, created_at>>
varsSquash == <<squash_fn, squash_pc, pos, current_batch, results, batches>>
varsChain == <<innermost, wrapped_finalize_batch,
               _listener_finalize_batch_function, cb_calls, exit_raised>>
varsFanOut == <<listener_new_diffs, listener_data>>
vars == <<varsCompact, varsBounded, varsDispatch, varsListener, varsYield,
          varsSquash, varsChain, varsFanOut>>

IdleCompact ==
    /\ S0 = <<>>
    /\ diffs = <<>>
    /\ compacted = <<>>
    /\ op_index_to_compacted_index = EmptyDict

\* BoundedListDiffHandler.__init__ (utils.py:59-65) over a fresh ListListener
\* (listeners.py:23-24)
NewBounded(max_size) ==
    /\ _max_size = max_size
    /\ _full_list = <<>>
    /\ _listener_len = 0
    /\ _new_diffs = <<>>
    /\ _data = <<>>
    /\ inbound = <<>>
    /\ forwarded = <<>>
    /\ prev_forwarded = <<>>

IdleBounded == NewBounded(1)

NoGenerator ==
    /\ generator = "none"
    /\ yielded = <<>>
    /\ created_at = 0

\* no chain of adapters has been built
IdleChain ==
    /\ innermost = "function"
    /\ wrapped_finalize_batch = "absent"
    /\ _listener_finalize_batch_function = "None"
    /\ cb_calls = 0
    /\ exit_raised = FALSE

\* listeners.py:17-26 for every listener a dispatcher can have: a
\* ListListener with nothing buffered
IdleFanOut ==
    /\ listener_new_diffs = [k \in 1..MaxListeners |-> <<>>]
    /\ listener_data = [k \in 1..MaxListeners |-> <<>>]

\* no squash function has been called
IdleSquash ==
    /\ squash_fn = "squash_list_diffs"
    /\ squash_pc = "done"
    /\ pos = 0
    /\ current_batch = <<>>
    /\ results = <<>>
    /\ batches = <<>>

IdleListener ==
    /\ listener_class = "ListListener"
    /\ dispatched = <<>>
    /\ returned = <<>>
    /\ gets = 0
    /\ get_raised = FALSE
    /\ NoGenerator
    /\ IdleFanOut
    /\ IdleSquash
    /\ IdleChain

\* dispatchers.py:12-18, Dispatcher.__init__, with no call in progress
NewDispatcher ==
    /\ _listeners = <<>>
    /\ _batch_finalizers = <<>>
    /\ _active = FALSE
    /\ _apply_diff_recursion = 0
    /\ _diffs_to_apply = <<>>
    /\ _should_finalize = FALSE
    /\ pc = "idle"
    /\ diff = <<>>
    /\ li = 0
    /\ admitted = <<>>
    /\ received = [k \in 1..MaxListeners |-> <<>>]
    /\ origin = <<>>
    /\ diff_origin = None
    /\ stack = <<>>
    /\ asserted = FALSE
    /\ listener_raised = FALSE
    /\ accepted = 0
    /\ max_nesting = 0
    /\ in_scope = FALSE
    /\ scope_admitted = FALSE
    /\ popped_since_finalize = FALSE
    /\ fired = <<>>
    /\ has_hook = [k \in 1..MaxListeners |-> FALSE]
    /\ rejected = 0

(***************************************************************************)
(* SpecCompact.  compact_list_diffs is a left fold over its input, so the  *)
(* state after k iterations of its loop is its result on the first k       *)
(* diffs.  The input is built diff by diff, each diff valid on the         *)
(* sequence the diffs before it produce from S0; the payload of the k-th   *)
(* diff is k (the code never inspects payloads, so distinct payloads are   *)
(* the most general choice), the elements of S0 are -1, -2, ...            *)
(***************************************************************************)
InitSeq(n) == [i \in 1..n |-> 0 - i]

Current == Replay(diffs, S0).list

InitCompact ==
    /\ S0 \in {InitSeq(n) : n \in 0..MaxInit}
    /\ diffs = <<>>
    /\ compacted = <<>>
    /\ op_index_to_compacted_index = EmptyDict
    /\ IdleBounded
    /\ NewDispatcher
    /\ IdleListener

Feed(dtype, index, data) ==
    /\ Len(diffs) < MaxOps
    /\ ValidOn(Diff(dtype, index, data), Current)
    /\ LET r == CompactStep(Diff(dtype, index, data), compacted,
                            op_index_to_compacted_index)
       IN /\ compacted' = r.compacted
          /\ op_index_to_compacted_index' = r.map
    /\ diffs' = Append(diffs, Diff(dtype, index, data))
    /\ S0' = S0
    /\ UNCHANGED <<varsBounded, varsDispatch, varsListener, varsYield,
                   varsSquash, varsChain, varsFanOut>>

FeedInsert == \E i \in 0..(MaxInit + MaxOps) : Feed(INSERT, i, Len(diffs) + 1)
FeedReplace == \E i \in 0..(MaxInit + MaxOps) : Feed(REPLACE, i, Len(diffs) + 1)
FeedDelete == \E i \in 0..(MaxInit + MaxOps) : Feed(DELETE, i, None)

NextCompact == FeedInsert \/ FeedReplace \/ FeedDelete

SpecCompact == InitCompact /\ [][NextCompact]_vars

\* the loop state is the function's result on the input consumed so far
FoldAgrees == compacted = compact_list_diffs(diffs)

(***************************************************************************)
(* Element bookkeeping for the claims about pairs of ops.  Replaying the   *)
(* input on S0, every element of the current sequence carries the kind of  *)
(* the earliest op of the input that a later op on it pairs with:          *)
(* INSERT if the input inserted it, REPLACE if it is an element of S0 the  *)
(* input has replaced, NoOp if the input has not touched it.               *)
(***************************************************************************)
NoOp == "none"

\* the bookkeeping after one more op, by element identity alone
TouchStep(op, w) ==
    IF op[TYPE] = INSERT THEN ListInsert(w, op[INDEX], INSERT)
    ELSE IF op[TYPE] = REPLACE
    THEN ListSet(w, op[INDEX], IF w[op[INDEX] + 1] = NoOp THEN REPLACE ELSE w[op[INDEX] + 1])
    ELSE ListDel(w, op[INDEX])

RECURSIVE Touched(_, _)
Touched(ops, w) ==
    IF ops = <<>> THEN w ELSE Touched(Tail(ops), TouchStep(Head(ops), w))

\* The same bookkeeping, except that a DELETE which stays in the output
\* (its target is not an element the input inserted and still pairs with)
\* unlinks the element directly behind the removed one.
LinkStep(op, g) ==
    IF op[TYPE] = INSERT THEN ListInsert(g, op[INDEX], INSERT)
    ELSE IF op[TYPE] = REPLACE
    THEN ListSet(g, op[INDEX], IF g[op[INDEX] + 1] = NoOp THEN REPLACE ELSE g[op[INDEX] + 1])
    ELSE IF g[op[INDEX] + 1] = INSERT THEN ListDel(g, op[INDEX])
    ELSE LET h == ListDel(g, op[INDEX])
         IN IF op[INDEX] < Len(h) THEN ListSet(h, op[INDEX], NoOp) ELSE h

RECURSIVE Linked(_, _)
Linked(ops, g) ==
    IF ops = <<>> THEN g ELSE Linked(Tail(ops), LinkStep(Head(ops), g))

Untouched == [i \in 1..Len(S0) |-> NoOp]
\* per element of Current: the kind of the earlier op on it, if any
TouchedNow == Touched(diffs, Untouched)
\* per element of Current: the kind of the earlier op still linked to it
LinkedNow == Linked(diffs, Untouched)

CountType(c, t) == Cardinality({p \in 1..Len(c) : c[p][TYPE] = t})
HasData(c, d) == \E p \in 1..Len(c) : c[p][DATA] = d

\* The outcome of feeding the next op (the last of diffs') when the element
\* it acts on carries the earlier kind e and the payload val.
PairOutcome(e, val) ==
    LET op == diffs'[Len(diffs')]
    IN /\ (op[TYPE] = REPLACE /\ e # NoOp) =>
            \E p \in 1..Len(compacted) :
                /\ compacted[p][TYPE] = e
                /\ compacted[p][DATA] = val
                /\ compacted' = [compacted EXCEPT ![p] =
                                    Diff(e, compacted[p][INDEX], op[DATA])]
       /\ (op[TYPE] = DELETE /\ e = INSERT) =>
            /\ Len(compacted') = Len(compacted) - 1
            /\ ~HasData(compacted', val)
            /\ CountType(compacted', DELETE) = CountType(compacted, DELETE)
       /\ (op[TYPE] = DELETE /\ e = REPLACE) =>
            /\ Len(compacted') = Len(compacted)
            /\ ~HasData(compacted', val)
            /\ compacted'[Len(compacted')] = op

TargetOfNext == diffs'[Len(diffs')][INDEX] + 1

\* C1: for every diff list valid against S0 (empty or not), replaying
\* compact_list_diffs of it on S0 is valid at every step and ends in the
\* sequence that replaying the list itself ends in.
C1_CompactionPreservesReplay ==
    LET a == Replay(diffs, S0)
        b == Replay(compacted, S0)
    IN a.ok /\ b.ok /\ b.list = a.list

\* a non-empty start, an input that was really shortened, and an INSERT
\* cancelled by a DELETE while later entries remained to be re-indexed
C1_Witness ==
    /\ S0 # <<>>
    /\ Len(diffs) >= 3
    /\ Len(compacted) > 0
    /\ Len(compacted) < Len(diffs)
    /\ diffs[Len(diffs)][TYPE] = DELETE
    /\ CountType(compacted, DELETE) = 0

\* C2 as stated: whenever an op acts on an element an earlier op of the
\* input acted on, whatever lies between them, the pair is reduced
\* (INSERT+REPLACE -> INSERT with the new payload, REPLACE+REPLACE ->
\* REPLACE with the new payload, INSERT+DELETE -> nothing,
\* REPLACE+DELETE -> DELETE).
C2_PairsAlwaysReduced ==
    [][diffs' # diffs =>
        PairOutcome(TouchedNow[TargetOfNext], Current[TargetOfNext])]_vars

\* C2 amended: the pair is reduced provided that, since the earlier op, no
\* DELETE that stays in the output has removed the element directly in
\* front of the element the two ops act on.
C2_LinkedPairsReduced ==
    [][diffs' # diffs =>
        PairOutcome(LinkedNow[TargetOfNext], Current[TargetOfNext])]_vars

\* the last op was paired with an earlier, non-adjacent op, and a DELETE
\* stays in the output
C2_Witness ==
    /\ Len(diffs) >= 3
    /\ LET pre == SubSeq(diffs, 1, Len(diffs) - 1)
           op == diffs[Len(diffs)]
           e == Linked(pre, Untouched)[op[INDEX] + 1]
           val == Replay(pre, S0).list[op[INDEX] + 1]
       IN /\ op[TYPE] # INSERT
          /\ e # NoOp
          /\ diffs[Len(diffs) - 1][TYPE] = DELETE
          /\ val # Len(diffs) - 1
    /\ CountType(compacted, DELETE) > 0

\* C3: the output of compact_list_diffs is never longer than its input.
C3_NeverLonger == Len(compacted) <= Len(diffs)

\* every kind of op has been fed and one of them was merged away
C3_Witness ==
    /\ Len(compacted) < Len(diffs)
    /\ \A t \in ListDiff : CountType(diffs, t) > 0

(***************************************************************************)
(* A short equivalent list, built from element identities: where each      *)
(* element of Current comes from (its 1-based position in S0, 0 for an     *)
(* element the input inserted).  It deletes the vanished elements of S0    *)
(* from the back, replaces the surviving elements of S0 that carry an      *)
(* input payload, and inserts the new elements front to back.              *)
(***************************************************************************)
OriginStep(op, o) ==
    IF op[TYPE] = INSERT THEN ListInsert(o, op[INDEX], 0)
    ELSE IF op[TYPE] = REPLACE THEN o
    ELSE ListDel(o, op[INDEX])

RECURSIVE Origins(_, _)
Origins(ops, o) ==
    IF ops = <<>> THEN o ELSE Origins(Tail(ops), OriginStep(Head(ops), o))

OriginsNow == Origins(diffs, [i \in 1..Len(S0) |-> i])

RECURSIVE SelectIdx(_, _, _)
\* the indices i in lo..hi with keep[i], ascending
SelectIdx(lo, hi, keep) ==
    IF lo > hi THEN <<>>
    ELSE (IF keep[lo] THEN <<lo>> ELSE <<>>) \o SelectIdx(lo + 1, hi, keep)

ShortEquivalent ==
    LET o == OriginsNow
        cur == Current
        gone == [p \in 1..Len(S0) |-> \A i \in 1..Len(o) : o[i] # p]
        goneIdx == Reverse(SelectIdx(1, Len(S0), gone))
        surv == SelectIdx(1, Len(o), [i \in 1..Len(o) |-> o[i] # 0])
        rewritten == SelectIdx(1, Len(surv),
                               [r \in 1..Len(surv) |-> cur[surv[r]] > 0])
        born == SelectIdx(1, Len(o), [i \in 1..Len(o) |-> o[i] = 0])
    IN [k \in 1..Len(goneIdx) |-> Diff(DELETE, goneIdx[k] - 1, None)]
       \o [k \in 1..Len(rewritten) |->
              Diff(REPLACE, rewritten[k] - 1, cur[surv[rewritten[k]]])]
       \o [k \in 1..Len(born) |-> Diff(INSERT, born[k] - 1, cur[born[k]])]

\* ShortEquivalent replays to the same sequence as the input, on S0 and on
\* S0 with one more element behind it
ShortEquivalentIsEquivalent ==
    LET longer == Append(S0, 0 - (Len(S0) + 1))
        a == Replay(ShortEquivalent, S0)
        b == Replay(ShortEquivalent, longer)
    IN /\ a.ok /\ a.list = Current
       /\ b.ok /\ b.list = Replay(diffs, longer).list

\* the elements of Current that carry a payload of the input; each diff
\* brings at most one payload into the sequence, so no equivalent list has
\* fewer diffs than this
NewPayloads == Cardinality({i \in 1..Len(Current) : Current[i] > 0})

NoStartElementDeleted ==
    \A p \in 1..Len(S0) : \E i \in 1..Len(OriginsNow) : OriginsNow[i] = p

\* C4 as stated: no strictly shorter list is equivalent to the input; in
\* particular the output is no longer than the equivalent list
\* ShortEquivalent.
C4_MinimumSize == Len(compacted) <= Len(ShortEquivalent)

\* C4 amended: when the input deletes no element of the starting sequence,
\* the output has exactly one diff per element that carries an input
\* payload, and no equivalent list is shorter than that.
C4_MinimumWithoutStartDeletes ==
    NoStartElementDeleted =>
        /\ Len(compacted) = NewPayloads
        /\ Len(compacted) <= Len(ShortEquivalent)

\* all three kinds were fed on a non-empty start, the output is at least
\* two diffs shorter than the input and keeps a REPLACE
C4_Witness ==
    /\ NoStartElementDeleted
    /\ S0 # <<>>
    /\ \A t \in ListDiff : CountType(diffs, t) > 0
    /\ Len(compacted) <= Len(diffs) - 2
    /\ CountType(compacted, REPLACE) > 0

(***************************************************************************)
(* SpecBounded.  A producer sends edits that are valid against the list    *)
(* it tracks (which _full_list mirrors) to a BoundedListDiffHandler over   *)
(* a ListListener; the listener is flushed at arbitrary moments.           *)
(***************************************************************************)
InitBounded ==
    /\ IdleCompact
    /\ NewDispatcher
    /\ IdleListener
    /\ \E max_size \in 1..MaxWindow : NewBounded(max_size)

\* utils.py:72-95 with the listener's __call__ (listeners.py:29-32, no
\* on_change callback) for every diff passed on
BoundedCall(dtype, index, data) ==
    /\ ValidOn(Diff(dtype, index, data), _full_list)
    /\ dtype = INSERT => Len(_full_list) < MaxFull
    /\ Len(_new_diffs) + 2 <= MaxPending
    /\ LET op == Diff(dtype, index, data)
           full == ApplyOne(op, _full_list)
           f == Forward(op, full, _listener_len, _max_size)
       IN /\ _full_list' = full
          /\ _listener_len' = f.len
          /\ _new_diffs' = _new_diffs \o f.sent
          /\ forwarded' = f.sent
    /\ prev_forwarded' = IF forwarded = <<>> THEN prev_forwarded
                         ELSE <<forwarded[Len(forwarded)]>>
    /\ inbound' = <<Diff(dtype, index, data)>>
    /\ UNCHANGED <<_max_size, _data>>
    /\ UNCHANGED <<varsCompact, varsDispatch, varsListener, varsYield,
                   varsSquash, varsChain, varsFanOut>>

BoundedInsert ==
    \E i \in 0..MaxFull, v \in Payloads : BoundedCall(INSERT, i, v)
BoundedReplace ==
    \E i \in 0..MaxFull, v \in Payloads : BoundedCall(REPLACE, i, v)
BoundedDelete ==
    \E i \in 0..MaxFull : BoundedCall(DELETE, i, None)

\* listeners.py:44-62: get_new_diffs of the inner listener
GetNewDiffs ==
    /\ _new_diffs # <<>>
    /\ _data' = ApplyDiffs(_new_diffs, _data).list
    /\ _new_diffs' = <<>>
    /\ UNCHANGED <<_max_size, _full_list, _listener_len, inbound, forwarded,
                   prev_forwarded>>
    /\ UNCHANGED <<varsCompact, varsDispatch, varsListener, varsYield,
                   varsSquash, varsChain, varsFanOut>>

NextBounded == BoundedInsert \/ BoundedReplace \/ BoundedDelete \/ GetNewDiffs

SpecBounded == InitBounded /\ [][NextBounded]_vars

Min(a, b) == IF a < b THEN a ELSE b
\* F[0 : min(|F|, max_size)]
Window == SubSeq(_full_list, 1, Min(Len(_full_list), _max_size))

\* no diff the listener has buffered can raise when it is applied
PendingApplies == ~ApplyDiffs(_new_diffs, _data).raised

\* C5: whenever the inner listener has flushed, its snapshot is
\* F[0 : min(|F|, max_size)], so its length is min(|F|, max_size) and at
\* most max_size.
C5_FlushedSnapshotIsWindow ==
    _new_diffs = <<>> =>
        /\ _data = Window
        /\ Len(_data) = Min(Len(_full_list), _max_size)
        /\ Len(_data) <= _max_size

\* flushed after a DELETE inside the window re-exposed an element of the
\* shadow list: the window is full again and holds two different payloads
C5_Witness ==
    /\ _new_diffs = <<>>
    /\ Len(_full_list) >= _max_size
    /\ inbound # <<>>
    /\ inbound[1][TYPE] = DELETE
    /\ inbound[1][INDEX] < _max_size
    /\ Len(forwarded) = 2
    /\ _data = Window
    /\ \E i \in 1..Len(_data) : _data[i] # _data[1]

\* C6: _listener_len = min(len(_full_list), max_size) after every edit.
C6_CounterIsWindowLength ==
    _listener_len = Min(Len(_full_list), _max_size)

\* edits inside and outside the window have been handled, the last one a
\* DELETE behind the window of a list longer than the window
C6_Witness ==
    /\ inbound # <<>>
    /\ inbound[1][TYPE] = DELETE
    /\ inbound[1][INDEX] >= _max_size
    /\ Len(_full_list) >= _max_size
    /\ _listener_len = _max_size
    /\ _new_diffs # <<>>

\* C7: an edit of any kind at an index >= max_size changes only the shadow
\* list: nothing is passed on (buffer and snapshot of the listener are
\* unchanged), the counter is unchanged.
C7_OutsideWindowOnlyShadow ==
    [][(/\ inbound' # <<>>
        /\ inbound'[1][INDEX] >= _max_size
        /\ BoundedCall(inbound'[1][TYPE], inbound'[1][INDEX], inbound'[1][DATA]))
       => /\ forwarded' = <<>>
          /\ _full_list' = ApplyOne(inbound'[1], _full_list)
          /\ UNCHANGED <<_new_diffs, _data, _listener_len>>]_vars

\* an INSERT behind a full window has grown the list and nothing was
\* passed on
C7_Witness ==
    /\ inbound # <<>>
    /\ inbound[1][TYPE] = INSERT
    /\ inbound[1][INDEX] >= _max_size
    /\ Len(_full_list) > _max_size
    /\ forwarded = <<>>
    /\ _new_diffs = <<>>
    /\ _data # <<>>

\* the diffs passed on, as far as the model remembers them: the last diff
\* before the latest call, then the diffs of the latest call
Stream == prev_forwarded \o forwarded

Flap(a, b) == a[TYPE] = INSERT /\ b[TYPE] = DELETE /\ a[INDEX] = b[INDEX]

\* C8 as stated: the stream of diffs passed on never contains INSERT(k, v)
\* immediately followed by DELETE(k).
C8_NeverInsertThenDelete ==
    \A p \in 1..(Len(Stream) - 1) : ~Flap(Stream[p], Stream[p + 1])

\* C8 amended: an INSERT(k, v) is immediately followed by a DELETE(k) in
\* the stream only when that DELETE is an inbound edit passed on as it
\* came; a DELETE the handler adds itself never follows an INSERT at its
\* own index.
C8_NoSynthesizedFlap ==
    \A p \in 1..(Len(Stream) - 1) :
        Flap(Stream[p], Stream[p + 1]) =>
            /\ p = Len(prev_forwarded)
            /\ inbound = <<Stream[p + 1]>>

\* the handler has trimmed: an INSERT inside a full window was passed on
\* followed by the DELETE the handler added
C8_Witness ==
    /\ Len(forwarded) = 2
    /\ forwarded[1][TYPE] = INSERT
    /\ forwarded[2][TYPE] = DELETE
    /\ inbound = <<forwarded[1]>>
    /\ prev_forwarded # <<>>

(***************************************************************************)
(* SpecDispatch.  dispatchers.py: one Dispatcher, its listeners and a      *)
(* producer.  The program is single-threaded; the only interleaving is     *)
(* re-entrancy: a listener that is being called may itself call            *)
(* apply_diff.  The outermost apply_diff is therefore modelled step by     *)
(* step:                                                                   *)
(*   pc = "idle"         no apply_diff call is in progress                 *)
(*   pc = "loop"         at the test of the while loop (line 42)           *)
(*   pc = "deliver"      in the for loop, about to call listener li        *)
(*   pc = "in_listener"  listener li has been called and has not returned  *)
(* The k-th diff handed to apply_diff is INSERT(0, k): the dispatcher      *)
(* never inspects a diff, so distinct diffs are the most general choice.   *)
(***************************************************************************)
\* dispatchers.py:34, the bound of the recursion assertion
RecursionLimit == 10

\* the early return missing the first re-entrant call
ReturnsEarly_late(recursion) == recursion > 2

\* dispatchers.py:37-38
ReturnsEarly(recursion) == recursion > 1

\* taking the newest diff of the queue instead of the oldest
PopLeft_newest(queue) == <<queue[Len(queue)], SubSeq(queue, 1, Len(queue) - 1)>>

\* dispatchers.py:43, deque.popleft: the diff taken and the queue left
PopLeft(queue) == <<Head(queue), Tail(queue)>>

\* the for loop stopping one listener early
ListenersDone_early(i, listeners) == i >= Len(listeners)

\* dispatchers.py:44, the for loop has gone through _listeners
ListenersDone(i, listeners) == i > Len(listeners)

\* the assertion failing one call early
AssertionHolds_early(recursion) == recursion + 1 < RecursionLimit

\* dispatchers.py:34, the recursion assertion holds
AssertionHolds(recursion) == recursion < RecursionLimit

\* add_listener without its assertion
CanAdd_always(active) == TRUE

\* dispatchers.py:22, the assertion of add_listener holds
CanAdd(active) == ~active

\* finalize_batch ignoring _should_finalize
FinalizerCalls_always(should_finalize, finalizers) == finalizers

\* dispatchers.py:53-55, the hooks finalize_batch invokes, in order
FinalizerCalls(should_finalize, finalizers) ==
    IF should_finalize THEN finalizers ELSE <<>>

Max(a, b) == IF a >= b THEN a ELSE b

InitDispatch ==
    /\ IdleCompact
    /\ IdleBounded
    /\ NewDispatcher
    /\ IdleListener

NextEmit == Diff(INSERT, 0, Len(admitted) + 1)

\* dispatchers.py:21-25, add_listener called by the producer before the
\* first diff; every listener is added once, has_finalize tells whether it
\* has a finalize_batch attribute
AddListener(has_finalize) ==
    /\ pc = "idle"
    /\ CanAdd(_active)
    /\ Len(_listeners) < MaxListeners
    /\ _listeners' = Append(_listeners, Len(_listeners) + 1)
    /\ _batch_finalizers' = IF has_finalize
                            THEN Append(_batch_finalizers, Len(_listeners) + 1)
                            ELSE _batch_finalizers
    /\ has_hook' = [has_hook EXCEPT ![Len(_listeners) + 1] = has_finalize]
    /\ UNCHANGED <<rejected, varsQueue, varsLoop, varsRecursion, varsFinalize,
                   varsScope, _active, received>>
    /\ UNCHANGED <<varsCompact, varsBounded, varsListener, varsYield,
                   varsSquash, varsChain, varsFanOut>>

AddListenerCall == \E has_finalize \in BOOLEAN : AddListener(has_finalize)

\* dispatchers.py:22, add_listener called by the producer, and its
\* assertion fails
AddListenerRefused ==
    /\ pc = "idle"
    /\ ~CanAdd(_active)
    /\ rejected < MaxRejected
    /\ rejected' = rejected + 1
    /\ UNCHANGED <<_listeners, _batch_finalizers, has_hook, varsQueue, varsLoop,
                   varsRecursion, varsFinalize, varsScope, _active, received>>
    /\ UNCHANGED <<varsCompact, varsBounded, varsListener, varsYield,
                   varsSquash, varsChain, varsFanOut>>

\* dispatchers.py:22, add_listener called by the listener that is being
\* called, and its assertion fails; the AssertionError leaves the listener
\* and apply_diff
AddListenerRefusedInListener ==
    /\ pc = "in_listener"
    /\ ~CanAdd(_active)
    /\ rejected < MaxRejected
    /\ rejected' = rejected + 1
    /\ pc' = "idle"
    /\ diff' = <<>>
    /\ li' = 0
    /\ diff_origin' = None
    /\ stack' = <<>>
    /\ listener_raised' = TRUE
    /\ UNCHANGED <<_apply_diff_recursion, asserted, accepted, max_nesting>>
    /\ UNCHANGED <<_listeners, _batch_finalizers, has_hook, varsQueue,
                   varsFinalize, varsScope, _active, received>>
    /\ UNCHANGED <<varsCompact, varsBounded, varsListener, varsYield,
                   varsSquash, varsChain, varsFanOut>>

\* dispatchers.py:34-41, apply_diff called by the producer while no call is
\* in progress
ApplyDiff ==
    /\ pc = "idle"
    /\ Len(admitted) < MaxEmits
    /\ AssertionHolds(_apply_diff_recursion)
    /\ _diffs_to_apply' = Append(_diffs_to_apply, NextEmit)
    /\ _apply_diff_recursion' = _apply_diff_recursion + 1
    /\ admitted' = Append(admitted, NextEmit)
    /\ origin' = Append(origin, None)
    /\ accepted' = accepted + 1
    /\ max_nesting' = Max(max_nesting, 1)
    /\ scope_admitted' = (scope_admitted \/ in_scope)
    /\ IF ReturnsEarly(_apply_diff_recursion + 1)
       THEN UNCHANGED <<_active, _should_finalize, pc>>
       ELSE /\ _active' = TRUE
            /\ _should_finalize' = TRUE
            /\ pc' = "loop"
    /\ UNCHANGED <<diff, li, diff_origin, stack, asserted, listener_raised,
                   varsListeners,
                   popped_since_finalize, fired, in_scope, received>>
    /\ UNCHANGED <<varsCompact, varsBounded, varsListener, varsYield,
                   varsSquash, varsChain, varsFanOut>>

\* dispatchers.py:34, apply_diff called by the producer and the assertion
\* fails
ApplyDiffOverflow ==
    /\ pc = "idle"
    /\ ~AssertionHolds(_apply_diff_recursion)
    /\ asserted' = TRUE
    /\ max_nesting' = Max(max_nesting, 1)
    /\ UNCHANGED <<_apply_diff_recursion, accepted, listener_raised,
                   varsQueue, varsLoop,
                   varsListeners, varsFinalize, varsScope, _active, received>>
    /\ UNCHANGED <<varsCompact, varsBounded, varsListener, varsYield,
                   varsSquash, varsChain, varsFanOut>>

\* dispatchers.py:42-43, the while test finds a diff and pops it
PopDiff ==
    /\ pc = "loop"
    /\ _diffs_to_apply # <<>>
    /\ diff' = <<PopLeft(_diffs_to_apply)[1]>>
    /\ diff_origin' = PopLeft(origin)[1]
    /\ origin' = PopLeft(origin)[2]
    /\ _diffs_to_apply' = PopLeft(_diffs_to_apply)[2]
    /\ li' = 1
    /\ pc' = "deliver"
    /\ popped_since_finalize' = TRUE
    /\ UNCHANGED <<admitted, stack, varsRecursion, varsListeners,
                   _should_finalize, fired, varsScope, _active, received>>
    /\ UNCHANGED <<varsCompact, varsBounded, varsListener, varsYield,
                   varsSquash, varsChain, varsFanOut>>

\* dispatchers.py:42 and 46, the while test finds the queue empty and the
\* call that runs the loop returns: to the producer, or into the listener
\* that made the call
Drained ==
    /\ pc = "loop"
    /\ _diffs_to_apply = <<>>
    /\ _apply_diff_recursion' = 0
    /\ accepted' = 0
    /\ IF stack = <<>>
       THEN /\ pc' = "idle"
            /\ diff' = <<>>
            /\ li' = 0
            /\ diff_origin' = None
            /\ stack' = stack
       ELSE /\ pc' = "in_listener"
            /\ diff' = <<stack[Len(stack)][1]>>
            /\ li' = stack[Len(stack)][2]
            /\ diff_origin' = stack[Len(stack)][3]
            /\ stack' = SubSeq(stack, 1, Len(stack) - 1)
    /\ UNCHANGED <<asserted, listener_raised, max_nesting, varsQueue,
                   varsListeners,
                   varsFinalize, varsScope, _active, received>>
    /\ UNCHANGED <<varsCompact, varsBounded, varsListener, varsYield,
                   varsSquash, varsChain, varsFanOut>>

\* dispatchers.py:44-45, the next listener is called with the diff
\* (listeners.py:29-30, it records the diff)
CallListener ==
    /\ pc = "deliver"
    /\ ~ListenersDone(li, _listeners)
    /\ received' = [received EXCEPT ![_listeners[li]] = Append(@, diff[1])]
    /\ pc' = "in_listener"
    /\ UNCHANGED <<diff, li, diff_origin, stack, varsQueue, varsRecursion,
                   varsListeners, varsFinalize, varsScope, _active>>
    /\ UNCHANGED <<varsCompact, varsBounded, varsListener, varsYield,
                   varsSquash, varsChain, varsFanOut>>

\* dispatchers.py:44, the for loop is through, back to the while test
ForDone ==
    /\ pc = "deliver"
    /\ ListenersDone(li, _listeners)
    /\ pc' = "loop"
    /\ UNCHANGED <<diff, li, diff_origin, stack, varsQueue, varsRecursion,
                   varsListeners, varsFinalize, varsScope, _active, received>>
    /\ UNCHANGED <<varsCompact, varsBounded, varsListener, varsYield,
                   varsSquash, varsChain, varsFanOut>>

\* dispatchers.py:34-46, apply_diff called by the listener that is being
\* called (listeners.py:31-32, its on_change callback): it returns at line
\* 38, or else runs the loop of lines 42-45 itself
ReenterApplyDiff ==
    /\ pc = "in_listener"
    /\ Len(admitted) < MaxEmits
    /\ AssertionHolds(_apply_diff_recursion)
    /\ _diffs_to_apply' = Append(_diffs_to_apply, NextEmit)
    /\ _apply_diff_recursion' = _apply_diff_recursion + 1
    /\ admitted' = Append(admitted, NextEmit)
    /\ origin' = Append(origin, diff[1][DATA])
    /\ accepted' = accepted + 1
    /\ max_nesting' = Max(max_nesting, Len(stack) + 2)
    /\ scope_admitted' = (scope_admitted \/ in_scope)
    /\ IF ReturnsEarly(_apply_diff_recursion + 1)
       THEN UNCHANGED <<_active, _should_finalize, varsLoop>>
       ELSE /\ _active' = TRUE
            /\ _should_finalize' = TRUE
            /\ stack' = Append(stack, <<diff[1], li, diff_origin>>)
            /\ pc' = "loop"
            /\ diff' = <<>>
            /\ li' = 0
            /\ diff_origin' = None
    /\ UNCHANGED <<asserted, listener_raised, varsListeners,
                   popped_since_finalize, fired,
                   in_scope, received>>
    /\ UNCHANGED <<varsCompact, varsBounded, varsListener, varsYield,
                   varsSquash, varsChain, varsFanOut>>

\* dispatchers.py:34, the assertion fails in a re-entrant call; the
\* AssertionError leaves the listener and the outermost apply_diff
ReenterOverflow ==
    /\ pc = "in_listener"
    /\ ~AssertionHolds(_apply_diff_recursion)
    /\ asserted' = TRUE
    /\ max_nesting' = Max(max_nesting, Len(stack) + 2)
    /\ pc' = "idle"
    /\ diff' = <<>>
    /\ diff_origin' = None
    /\ li' = 0
    /\ stack' = <<>>
    /\ listener_raised' = TRUE
    /\ UNCHANGED <<_apply_diff_recursion, accepted, varsQueue, varsListeners,
                   varsFinalize, varsScope, _active, received>>
    /\ UNCHANGED <<varsCompact, varsBounded, varsListener, varsYield,
                   varsSquash, varsChain, varsFanOut>>

\* dispatchers.py:45, the listener returns
ListenerReturns ==
    /\ pc = "in_listener"
    /\ li' = li + 1
    /\ pc' = "deliver"
    /\ UNCHANGED <<diff, diff_origin, stack, varsQueue, varsRecursion,
                   varsListeners, varsFinalize, varsScope, _active, received>>
    /\ UNCHANGED <<varsCompact, varsBounded, varsListener, varsYield,
                   varsSquash, varsChain, varsFanOut>>

\* dispatchers.py:45, the listener raises; the exception leaves apply_diff
\* before line 46
ListenerRaises ==
    /\ pc = "in_listener"
    /\ pc' = "idle"
    /\ diff' = <<>>
    /\ diff_origin' = None
    /\ li' = 0
    /\ stack' = <<>>
    /\ listener_raised' = TRUE
    /\ UNCHANGED <<_apply_diff_recursion, asserted, accepted, max_nesting>>
    /\ UNCHANGED <<varsQueue, varsListeners, varsFinalize, varsScope, _active,
                   received>>
    /\ UNCHANGED <<varsCompact, varsBounded, varsListener, varsYield,
                   varsSquash, varsChain, varsFanOut>>

\* dispatchers.py:49-56, finalize_batch called by the producer outside a
\* `with` block
FinalizeBatch ==
    /\ pc = "idle"
    /\ ~in_scope
    /\ fired' = FinalizerCalls(_should_finalize, _batch_finalizers)
    /\ _should_finalize' = FALSE
    /\ popped_since_finalize' = FALSE
    /\ UNCHANGED <<varsQueue, varsLoop, varsRecursion, varsListeners,
                   varsScope, _active, received>>
    /\ UNCHANGED <<varsCompact, varsBounded, varsListener, varsYield,
                   varsSquash, varsChain, varsFanOut>>

NextDispatch ==
    \/ AddListenerCall
    \/ ApplyDiff
    \/ ApplyDiffOverflow
    \/ PopDiff
    \/ Drained
    \/ CallListener
    \/ ForDone
    \/ ReenterApplyDiff
    \/ ReenterOverflow
    \/ ListenerReturns
    \/ ListenerRaises

SpecDispatch == InitDispatch /\ [][NextDispatch]_vars

IsPrefix(a, b) == Len(a) <= Len(b) /\ a = SubSeq(b, 1, Len(a))
Registered == 1..Len(_listeners)
\* no call is in progress and no exception has left apply_diff
Quiescent == pc = "idle" /\ _apply_diff_recursion = 0

\* the code's queue is exactly what was admitted and not yet popped
QueueIsTail ==
    \E n \in 0..Len(admitted) :
        _diffs_to_apply = SubSeq(admitted, n + 1, Len(admitted))

\* C9: every listener is called with the admitted diffs in their order,
\* each once (what it has received is a prefix of what was admitted);
\* listeners are visited in registration order and a diff goes to all of
\* them before the next goes to any, so a listener registered later has a
\* prefix of what an earlier one has and is at most one diff behind; once
\* apply_diff has returned every listener has every admitted diff.
C9_FanOutOrder ==
    /\ \A k \in Registered : IsPrefix(received[k], admitted)
    /\ \A a \in Registered, b \in Registered :
          a < b => /\ IsPrefix(received[b], received[a])
                   /\ Len(received[a]) - Len(received[b]) <= 1
    /\ Quiescent => \A k \in Registered : received[k] = admitted

\* two listeners, the first one diff ahead of the second in the middle of
\* the delivery of the third diff
C9_Witness ==
    /\ Len(_listeners) = 2
    /\ Len(received[1]) = 3
    /\ Len(received[2]) = 2
    /\ pc = "in_listener"

\* the diffs a listener has received, as a set
ReceivedBy(k) == {received[k][p] : p \in 1..Len(received[k])}

\* C10: a diff emitted by a listener while it receives diff d is queued:
\* no listener has it while it sits in the queue, and when it leaves the
\* queue and goes to the listeners every listener already has d; every
\* listener receives the diffs in the one order of admission, so when no
\* call is in progress all listeners have the same sequence.
C10_ReentrantLinearized ==
    /\ \A p \in 1..Len(_diffs_to_apply) :
          \A k \in Registered : _diffs_to_apply[p] \notin ReceivedBy(k)
    /\ \A p \in 1..Len(_diffs_to_apply) :
          origin[p] # None => origin[p] < _diffs_to_apply[p][DATA]
    /\ (diff # <<>> /\ diff_origin # None) =>
          ((\E k \in Registered : diff[1] \in ReceivedBy(k))
             => \A k \in Registered : admitted[diff_origin] \in ReceivedBy(k))
    /\ \A j \in Registered, k \in Registered :
          IsPrefix(received[j], received[k]) \/ IsPrefix(received[k], received[j])
    /\ \A k \in Registered :
          \A p \in 1..Len(received[k]) : received[k][p] = admitted[p]
    /\ Quiescent => \A j \in Registered, k \in Registered : received[j] = received[k]

\* the second listener is receiving a diff that the first listener emitted
\* while it received the first diff
C10_Witness ==
    /\ Len(_listeners) = 2
    /\ pc = "in_listener"
    /\ li = 2
    /\ diff_origin = 1
    /\ diff = <<admitted[2]>>
    /\ received[1] = <<admitted[1], admitted[2]>>
    /\ received[2] = <<admitted[1], admitted[2]>>

\* listener invocations that have begun and not ended: the suspended ones
\* and the running one
InvocationsInProgress == Len(stack) + (IF pc = "in_listener" THEN 1 ELSE 0)

\* C11: listener invocations never nest.  At most one invocation is in
\* progress at any moment, and an apply_diff call made from inside a
\* listener returns into that listener having invoked no listener: nothing
\* is received and the invocation in progress is the same one.
C11_InvocationsNeverNest ==
    /\ [](InvocationsInProgress <= 1)
    /\ [][(pc = "in_listener" /\ Len(admitted') > Len(admitted))
          => /\ received' = received
             /\ pc' = "in_listener"
             /\ <<diff, li>>' = <<diff, li>>
             /\ _diffs_to_apply' = Append(_diffs_to_apply, admitted'[Len(admitted')])]_vars

\* the second listener is being called with the second diff, which the
\* first listener emitted while it was called with the first
C11_Witness ==
    /\ pc = "in_listener"
    /\ li = 2
    /\ diff_origin = 1
    /\ Len(received[2]) = 2
    /\ _apply_diff_recursion = 2

\* C14 as stated: the recursion assertion fails only when apply_diff frames
\* are nested more than RecursionLimit deep.
C14_AssertsOnlyWhenNestedTooDeep ==
    asserted => max_nesting > RecursionLimit

\* C14 amended: apply_diff frames are never nested more than two deep; the
\* counter counts the apply_diff calls accepted since the last return of an
\* outermost call, and the assertion fails only when RecursionLimit calls
\* have been accepted since then.
C14_AssertsOnlyAfterTenAccepted ==
    /\ max_nesting <= 2
    /\ _apply_diff_recursion = accepted
    /\ accepted <= RecursionLimit
    /\ asserted => /\ accepted >= RecursionLimit
                   /\ Len(admitted) >= RecursionLimit

\* the assertion has failed in a re-entrant call after ten accepted calls
C14_Witness ==
    /\ asserted
    /\ accepted = RecursionLimit
    /\ max_nesting = 2
    /\ Len(received[1]) >= 2


(***************************************************************************)
(* SpecBatch.  The same Dispatcher with the calls around delivery:         *)
(* add_listener at any time (also from inside a listener), finalize_batch  *)
(* and the `with dispatcher:` scope of __enter__ / __exit__, all made by   *)
(* the producer between apply_diff calls.  Runs are short (MaxBatchEmits), *)
(* so the recursion assertion cannot fail in them.                         *)
(***************************************************************************)
\* dispatchers.py:59-60, __enter__
EnterScope ==
    /\ pc = "idle"
    /\ ~in_scope
    /\ in_scope' = TRUE
    /\ scope_admitted' = FALSE
    /\ fired' = <<>>
    /\ UNCHANGED <<_should_finalize, popped_since_finalize, varsQueue, varsLoop,
                   varsRecursion, varsListeners, _active, received>>
    /\ UNCHANGED <<varsCompact, varsBounded, varsListener, varsYield,
                   varsSquash, varsChain, varsFanOut>>

\* dispatchers.py:63-64 and 49-56, __exit__ calls finalize_batch
ExitScope ==
    /\ pc = "idle"
    /\ in_scope
    /\ in_scope' = FALSE
    /\ fired' = FinalizerCalls(_should_finalize, _batch_finalizers)
    /\ _should_finalize' = FALSE
    /\ popped_since_finalize' = FALSE
    /\ UNCHANGED <<scope_admitted, varsQueue, varsLoop, varsRecursion,
                   varsListeners, _active, received>>
    /\ UNCHANGED <<varsCompact, varsBounded, varsListener, varsYield,
                   varsSquash, varsChain, varsFanOut>>

ApplyDiffInBatch == Len(admitted) < MaxBatchEmits /\ ApplyDiff
ReenterApplyDiffInBatch == Len(admitted) < MaxBatchEmits /\ ReenterApplyDiff

NextBatch ==
    \/ AddListenerCall
    \/ AddListenerRefused
    \/ AddListenerRefusedInListener
    \/ ApplyDiffInBatch
    \/ PopDiff
    \/ Drained
    \/ CallListener
    \/ ForDone
    \/ ReenterApplyDiffInBatch
    \/ ListenerReturns
    \/ ListenerRaises
    \/ FinalizeBatch
    \/ EnterScope
    \/ ExitScope

SpecBatch == InitDispatch /\ [][NextBatch]_vars

\* C12: add_listener succeeds only while no diff has been emitted and is
\* never refused then; once a diff has been emitted (the dispatcher is
\* active from the first emit on) every add_listener call is refused, also
\* from inside a listener, and a refused call leaves the listener list and
\* the finalizer list as they were.
C12_AddListenerOnlyBeforeFirstEmit ==
    /\ [](_active <=> admitted # <<>>)
    /\ [][/\ rejected' > rejected
             => /\ admitted # <<>>
                /\ UNCHANGED <<_listeners, _batch_finalizers>>
          /\ _listeners' # _listeners => admitted = <<>> /\ rejected' = rejected
          /\ admitted # <<>> => UNCHANGED <<_listeners, _batch_finalizers>>]_vars

\* add_listener was refused inside the first listener while it received a
\* diff: the call ended there and the second listener has not received it
C12_Witness ==
    /\ rejected = 1
    /\ pc = "idle"
    /\ Len(_listeners) = 2
    /\ Len(received[1]) = 1
    /\ Len(received[2]) = 0
    /\ _apply_diff_recursion > 0

\* the listeners that have a finalize_batch hook, in registration order
HookedListeners == SelectSeq(_listeners, LAMBDA k : has_hook[k])

\* C13 as stated: leaving the scope invokes the hook of every listener that
\* has one, once each, exactly when a diff was admitted inside the scope,
\* and no hook is invoked while the scope is open (looked at only where no
\* exception has left apply_diff).
C13_FiresIffAdmittedInScope ==
    /\ [](in_scope => fired = <<>>)
    /\ [][(in_scope /\ ~in_scope' /\ _apply_diff_recursion = 0)
          => fired' = IF scope_admitted THEN HookedListeners ELSE <<>>]_vars

\* C13 amended: leaving the scope invokes the hook of every listener that
\* has one, once each, exactly when a diff has been taken from the queue
\* for delivery since the previous finalize_batch call, inside the scope or
\* before it; no hook is invoked while the scope is open.
C13_FiresIffDeliveredSinceFinalize ==
    /\ [](in_scope => fired = <<>>)
    /\ [][(in_scope /\ ~in_scope')
          => fired' = IF popped_since_finalize THEN HookedListeners ELSE <<>>]_vars

\* a scope in which a diff was admitted has been left and the hooks of both
\* listeners were invoked
C13_Witness ==
    /\ ~in_scope
    /\ scope_admitted
    /\ Len(_listeners) = 2
    /\ fired = <<1, 2>>

(***************************************************************************)
(* SpecListener.  listeners.py: one ListListener or DictListener that is   *)
(* called with the diffs of a producer and is read by a consumer.  The     *)
(* producer edits a container of its own; the diffs it sends are valid on  *)
(* that container, which is the listener's snapshot with the buffered      *)
(* diffs applied.                                                          *)
(***************************************************************************)
SET == "SET"
DictDiff == {SET, DELETE}
ListenerClasses == {"ListListener", "DictListener"}

\* listeners.py:23, _DATA_FACTORY() of the class (lines 78 and 92)
_DATA_FACTORY(class) == IF class = "ListListener" THEN <<>> ELSE EmptyDict

\* DictListener._apply_diff with a DELETE that leaves the key in place
DictListener_apply_diff_keeps_key(op, data) ==
    IF op[TYPE] = SET THEN DictSet(data, op[INDEX], op[DATA]) ELSE data

\* listeners.py:94-99, DictListener._apply_diff
DictListener_apply_diff(op, data) ==
    IF op[TYPE] = SET THEN DictSet(data, op[INDEX], op[DATA])
    ELSE DictDel(data, op[INDEX])

\* a DELETE of an absent key passing silently
DictRaises_suppressed(op, data) == FALSE

\* listeners.py:99, del self._data[index] raises KeyError
DictRaises(op, data) == op[TYPE] = DELETE /\ op[INDEX] \notin DOMAIN data

RECURSIVE ApplyAll(_, _, _)
\* listeners.py:60-61, the loop of get_new_diffs over the buffer; it stops
\* at the first diff whose application raises
ApplyAll(class, ops, data) ==
    IF ops = <<>> THEN [raised |-> FALSE, data |-> data]
    ELSE IF class = "ListListener"
    THEN IF Raises(Head(ops), data) THEN [raised |-> TRUE, data |-> data]
         ELSE ApplyAll(class, Tail(ops), _apply_diff(Head(ops), data))
    ELSE IF DictRaises(Head(ops), data) THEN [raised |-> TRUE, data |-> data]
         ELSE ApplyAll(class, Tail(ops), DictListener_apply_diff(Head(ops), data))

\* __call__ putting the diff in front of the buffer
Buffer_in_front(new_diffs, op) == <<op>> \o new_diffs

\* listeners.py:30, self._new_diffs.append(...)
Buffer(new_diffs, op) == Append(new_diffs, op)

\* __call__ applying the diff to the snapshot at once
DataAfterCall_eager(class, op, data) == ApplyAll(class, <<op>>, data).data

\* listeners.py:29-32, __call__ does not touch self._data
DataAfterCall(class, op, data) == data

\* get_new_diffs keeping the buffer
ClearedBuffer_kept(new_diffs) == new_diffs

\* listeners.py:59, self._new_diffs = []
ClearedBuffer(new_diffs) == <<>>

\* listeners.py:65-67
has_changed == _new_diffs # <<>>

\* listeners.py:40-41
get_snapshot == _data

InitListener ==
    /\ IdleCompact
    /\ NewDispatcher
    /\ _max_size = 1 /\ _full_list = <<>> /\ _listener_len = 0
    /\ inbound = <<>> /\ forwarded = <<>> /\ prev_forwarded = <<>>
    /\ listener_class \in ListenerClasses
    /\ _data = _DATA_FACTORY(listener_class)
    /\ _new_diffs = <<>>
    /\ dispatched = <<>>
    /\ returned = <<>>
    /\ gets = 0
    /\ get_raised = FALSE
    /\ NoGenerator
    /\ IdleFanOut
    /\ IdleSquash
    /\ IdleChain

\* the producer's container
Logical == ApplyAll(listener_class, _new_diffs, _data).data

\* listeners.py:29-32, Listener.__call__ (no on_change callback)
ListenerCall(dtype, index, data) ==
    /\ Len(_new_diffs) < MaxBuffered
    /\ _new_diffs' = Buffer(_new_diffs, Diff(dtype, index, data))
    /\ _data' = DataAfterCall(listener_class, Diff(dtype, index, data), _data)
    /\ dispatched' = Append(dispatched, Diff(dtype, index, data))
    /\ returned' = <<>>
    /\ gets' = 0
    /\ get_raised' = FALSE
    /\ UNCHANGED <<listener_class, _max_size, _full_list, _listener_len, inbound,
                   forwarded, prev_forwarded>>
    /\ UNCHANGED <<varsCompact, varsDispatch, varsYield,
                   varsSquash, varsChain, varsFanOut>>

\* a ListDispatcher's diff, valid on the producer's list
ListListenerCall ==
    /\ listener_class = "ListListener"
    /\ \E dtype \in ListDiff, i \in 0..MaxItems, v \in Payloads :
          /\ ValidOn(Diff(dtype, i, v), Logical)
          /\ dtype = INSERT => Len(Logical) < MaxItems
          /\ ListenerCall(dtype, i, IF dtype = DELETE THEN None ELSE v)

\* a DictDispatcher's diff, valid on the producer's dict
DictListenerCall ==
    /\ listener_class = "DictListener"
    /\ \E dtype \in DictDiff, k \in Keys, v \in Payloads :
          /\ dtype = DELETE => k \in DOMAIN Logical
          /\ ListenerCall(dtype, k, IF dtype = DELETE THEN None ELSE v)

\* listeners.py:58-62, get_new_diffs; when a diff of the buffer raises, the
\* exception leaves the call and nothing is returned
ListenerGetNewDiffs ==
    /\ get_raised' = ApplyAll(listener_class, _new_diffs, _data).raised
    /\ returned' = IF get_raised' THEN <<>> ELSE _new_diffs
    /\ _new_diffs' = ClearedBuffer(_new_diffs)
    /\ _data' = ApplyAll(listener_class, _new_diffs, _data).data
    /\ dispatched' = <<>>
    /\ gets' = IF gets < 2 THEN gets + 1 ELSE gets
    /\ UNCHANGED <<listener_class, _max_size, _full_list, _listener_len, inbound,
                   forwarded, prev_forwarded>>
    /\ UNCHANGED <<varsCompact, varsDispatch, varsYield,
                   varsSquash, varsChain, varsFanOut>>

NextListener == ListListenerCall \/ DictListenerCall \/ ListenerGetNewDiffs

SpecListener == InitListener /\ [][NextListener]_vars

RECURSIVE DictReplay(_, _)
\* applying SET/DELETE diffs to a mapping one by one; ok is FALSE as soon
\* as a DELETE names a key that is absent
DictReplay(ops, m) ==
    IF ops = <<>> THEN [ok |-> TRUE, map |-> m]
    ELSE LET op == Head(ops)
         IN IF op[TYPE] = DELETE /\ op[INDEX] \notin DOMAIN m
            THEN [ok |-> FALSE, map |-> m]
            ELSE DictReplay(Tail(ops),
                            IF op[TYPE] = DELETE
                            THEN [x \in (DOMAIN m) \ {op[INDEX]} |-> m[x]]
                            ELSE [x \in (DOMAIN m) \cup {op[INDEX]} |->
                                     IF x = op[INDEX] THEN op[DATA] ELSE m[x]])

\* X is valid on the container s of a listener of the class
ValidSequence(class, X, s) ==
    IF class = "ListListener" THEN Replay(X, s).ok ELSE DictReplay(X, s).ok

\* X applied to s diff by diff
AppliedTo(class, X, s) ==
    IF class = "ListListener" THEN Replay(X, s).list ELSE DictReplay(X, s).map

\* the step is a get_new_diffs call
IsGetNewDiffs == gets' > 0

\* C15: a get_new_diffs call returns exactly the diffs X dispatched since
\* the last one, in their order; X is valid on the snapshot S0 the call
\* finds, and the snapshot after the call is X applied to S0 diff by diff.
C15_ListenerRoundTrip ==
    [][IsGetNewDiffs =>
          /\ returned' = dispatched
          /\ ValidSequence(listener_class, dispatched, _data)
          /\ _data' = AppliedTo(listener_class, dispatched, _data)]_vars

\* a ListListener has returned an INSERT, a REPLACE and a DELETE
C15_Witness ==
    /\ listener_class = "ListListener"
    /\ gets = 1
    /\ Len(returned) = 3
    /\ {returned[p][TYPE] : p \in 1..3} = ListDiff
    /\ _data # <<>>

\* C16: a call of the listener with a diff leaves the snapshot as it is;
\* the snapshot changes only in a get_new_diffs call.
C16_ReceivingKeepsSnapshot ==
    [][/\ dispatched' # <<>> => get_snapshot' = get_snapshot
       /\ get_snapshot' # get_snapshot => IsGetNewDiffs]_vars

\* three diffs are buffered behind a non-empty snapshot that they would
\* change
C16_Witness ==
    /\ gets = 0
    /\ Len(dispatched) = 3
    /\ _data # _DATA_FACTORY(listener_class)
    /\ Logical # _data

\* C17: the snapshot read before a get_new_diffs call with the returned
\* diffs applied to it equals the snapshot read after the call.
C17_DeferredApplication ==
    [][IsGetNewDiffs =>
          AppliedTo(listener_class, returned', get_snapshot) = get_snapshot']_vars

\* a DictListener whose snapshot held a key has returned a SET and a DELETE
C17_Witness ==
    /\ listener_class = "DictListener"
    /\ gets = 1
    /\ \E p, q \in 1..Len(returned) :
          returned[p][TYPE] = SET /\ returned[q][TYPE] = DELETE
    /\ _data # EmptyDict
    /\ DOMAIN _data # Keys

\* C18: has_changed is true exactly when a diff has been received since
\* the last get_new_diffs; a get_new_diffs call leaves the buffer empty,
\* and a call right after it returns the empty list and leaves the
\* snapshot as it is.
C18_HasChangedIffPending ==
    /\ [](has_changed <=> dispatched # <<>>)
    /\ [][/\ IsGetNewDiffs => _new_diffs' = <<>> /\ ~has_changed'
          /\ (gets = 1 /\ gets' = 2)
               => /\ returned' = <<>>
                  /\ get_snapshot' = get_snapshot]_vars

\* get_new_diffs was called twice in a row on a listener that had diffs
C18_Witness ==
    /\ gets = 2
    /\ _data # _DATA_FACTORY(listener_class)
    /\ ~has_changed

(***************************************************************************)
(* SpecYield: the lazy consumer, Listener.yield_new_diffs.  The method is  *)
(* called by tests/test_difftrack.py:76-94 and described by the            *)
(* specification (the "lazy generator variant" of get_new_diffs); its body *)
(* is modelled from those: a generator that, each time it is resumed,      *)
(* takes the oldest buffered diff, applies it to the snapshot and yields   *)
(* it, and that finishes when it is resumed on an empty buffer.  Creating  *)
(* the generator runs none of its body.  __call__ is the code of           *)
(* listeners.py:29-32 as in SpecListener.                                  *)
(***************************************************************************)

InitYield == InitListener

\* yield_new_diffs(): the generator object is created, no diff is consumed
YieldNewDiffs ==
    /\ generator = "none"
    /\ generator' = "created"
    /\ yielded' = <<>>
    /\ created_at' = Len(dispatched)
    /\ UNCHANGED <<varsCompact, varsBounded, varsDispatch, varsListener,
                   varsSquash, varsChain, varsFanOut>>

\* next(generator) with a diff buffered: the oldest buffered diff is applied
\* to the snapshot and yielded
GeneratorNext ==
    /\ generator \in {"created", "suspended"}
    /\ _new_diffs # <<>>
    /\ ~ApplyAll(listener_class, <<Head(_new_diffs)>>, _data).raised
    /\ _data' = ApplyAll(listener_class, <<Head(_new_diffs)>>, _data).data
    /\ _new_diffs' = Tail(_new_diffs)
    /\ yielded' = Append(yielded, Head(_new_diffs))
    /\ generator' = "suspended"
    /\ UNCHANGED <<created_at, listener_class, dispatched, returned, gets,
                   get_raised,
                   _max_size, _full_list, _listener_len, inbound, forwarded,
                   prev_forwarded>>
    /\ UNCHANGED <<varsCompact, varsDispatch,
                   varsSquash, varsChain, varsFanOut>>

\* next(generator) with nothing buffered: the generator finishes
GeneratorStop ==
    /\ generator \in {"created", "suspended"}
    /\ _new_diffs = <<>>
    /\ generator' = "done"
    /\ UNCHANGED <<yielded, created_at>>
    /\ UNCHANGED <<varsCompact, varsBounded, varsDispatch, varsListener,
                   varsSquash, varsChain, varsFanOut>>

\* the producer emits while the consumer holds (or has not yet made) the
\* generator; at most MaxBuffered diffs in a run
ListCallLazy == Len(dispatched) < MaxBuffered /\ ListListenerCall

DictCallLazy == Len(dispatched) < MaxBuffered /\ DictListenerCall

NextYield ==
    \/ ListCallLazy
    \/ DictCallLazy
    \/ YieldNewDiffs
    \/ GeneratorNext
    \/ GeneratorStop

SpecYield == InitYield /\ [][NextYield]_vars

_tombstone == 0 - 1

\* the position of key in the ordered dict, 0 if it is absent
PositionOf(od, key) ==
    IF \E i \in 1..Len(od) : od[i][1] = key
    THEN CHOOSE i \in 1..Len(od) : od[i][1] = key
    ELSE 0

\* od[key] = value moving a key already present to the end
SetItem_at_end(od, key, value) ==
    Append(SelectSeq(od, LAMBDA e : e[1] # key), <<key, value>>)

\* od[key] = value on a Python dict: a key already present keeps its place,
\* a new key goes to the end
SetItem(od, key, value) ==
    IF PositionOf(od, key) = 0 THEN Append(od, <<key, value>>)
    ELSE [od EXCEPT ![PositionOf(od, key)] = <<key, value>>]

\* compaction.py:20-24, one iteration of the loop
DictCompactStep(op, od) ==
    IF op[TYPE] = SET THEN SetItem(od, op[INDEX], op[DATA])
    ELSE IF op[TYPE] = DELETE THEN SetItem(od, op[INDEX], _tombstone)
    ELSE od

\* compaction.py:25-28, the returned list
DictCompactOutput(od) ==
    [i \in 1..Len(od) |->
        IF od[i][2] = _tombstone THEN Diff(DELETE, od[i][1], None)
        ELSE Diff(SET, od[i][1], od[i][2])]

RECURSIVE DictCompactFold(_, _)
\* compaction.py:19-24
DictCompactFold(ops, od) ==
    IF ops = <<>> THEN od
    ELSE DictCompactFold(Tail(ops), DictCompactStep(Head(ops), od))

\* compaction.py:12-28
compact_dict_diffs(ops) == DictCompactOutput(DictCompactFold(ops, <<>>))

\* the mappings M0 over the keys
InitMaps == UNION {[ks -> {0}] : ks \in SUBSET Keys}

InitDictCompact ==
    /\ S0 \in InitMaps
    /\ diffs = <<>>
    /\ compacted = <<>>
    /\ op_index_to_compacted_index = EmptyDict
    /\ IdleBounded
    /\ NewDispatcher
    /\ IdleListener

\* the mapping the input so far produces from M0
CurrentMap == DictReplay(diffs, S0).map

DictFeed(dtype, key, data) ==
    /\ Len(diffs) < MaxOps
    /\ dtype = DELETE => key \in DOMAIN CurrentMap
    /\ compacted' = DictCompactStep(Diff(dtype, key, data), compacted)
    /\ diffs' = Append(diffs, Diff(dtype, key, data))
    /\ UNCHANGED <<S0, op_index_to_compacted_index>>
    /\ UNCHANGED <<varsBounded, varsDispatch, varsListener, varsYield,
                   varsSquash, varsChain, varsFanOut>>

FeedDictSet == \E k \in Keys, v \in Payloads : DictFeed(SET, k, v)

FeedDictDelete == \E k \in Keys : DictFeed(DELETE, k, None)

NextDictCompact == FeedDictSet \/ FeedDictDelete

SpecDictCompact == InitDictCompact /\ [][NextDictCompact]_vars

\* C20: for every list X of SET/DELETE diffs valid on M0, replaying
\* compact_dict_diffs(X) on M0 succeeds (no DELETE of an absent key) and
\* yields the mapping that replaying X on M0 yields.
C20_DictCompactionPreservesReplay ==
    /\ compacted = DictCompactFold(diffs, <<>>)
    /\ DictReplay(diffs, S0).ok
    /\ DictReplay(compact_dict_diffs(diffs), S0).ok
    /\ DictReplay(compact_dict_diffs(diffs), S0).map = DictReplay(diffs, S0).map

\* the keys the diffs of X name
TouchedKeys(X) == {X[i][INDEX] : i \in 1..Len(X)}

\* the positions in X of the diffs on key k
OpsOn(X, k) == {i \in 1..Len(X) : X[i][INDEX] = k}

\* the last and the first diff of X on key k, k touched in X
LastOn(X, k) == X[CHOOSE i \in OpsOn(X, k) : \A j \in OpsOn(X, k) : j <= i]
FirstOn(X, k) == CHOOSE i \in OpsOn(X, k) : \A j \in OpsOn(X, k) : i <= j

\* C21: compact_dict_diffs(X) holds exactly one record for each key X
\* touches and none for any other key; the record of k is SET(k, v) with the
\* last value set when the last diff of X on k is a SET and DELETE(k) when it
\* is a DELETE; the records come in the order in which their keys first
\* occur in X.
C21_OneRecordPerTouchedKey ==
    LET out == compact_dict_diffs(diffs)
    IN /\ out = DictCompactOutput(compacted)
       /\ {out[i][INDEX] : i \in 1..Len(out)} = TouchedKeys(diffs)
       /\ \A i, j \in 1..Len(out) : out[i][INDEX] = out[j][INDEX] => i = j
       /\ \A i \in 1..Len(out) :
             LET last == LastOn(diffs, out[i][INDEX])
             IN IF last[TYPE] = SET THEN out[i] = Diff(SET, last[INDEX], last[DATA])
                ELSE out[i] = Diff(DELETE, last[INDEX], None)
       /\ \A i, j \in 1..Len(out) :
             i < j => FirstOn(diffs, out[i][INDEX]) < FirstOn(diffs, out[j][INDEX])

\* y is touched first and set twice, x is touched later and deleted last:
\* the output is SET(y, last value) followed by DELETE(x)
C21_Witness ==
    /\ Len(diffs) = MaxOps
    /\ diffs[1][INDEX] = "y"
    /\ diffs[1][TYPE] = SET
    /\ LastOn(diffs, "y")[TYPE] = SET
    /\ LastOn(diffs, "y")[DATA] # diffs[1][DATA]
    /\ "x" \in TouchedKeys(diffs)
    /\ diffs[Len(diffs)] = Diff(DELETE, "x", None)
    /\ compact_dict_diffs(diffs) =
          <<Diff(SET, "y", LastOn(diffs, "y")[DATA]), Diff(DELETE, "x", None)>>

\* the keys absent from M0 whose last diff in X is a DELETE
DeletedAbsentKeys ==
    {k \in TouchedKeys(diffs) \ DOMAIN S0 : LastOn(diffs, k)[TYPE] = DELETE}

\* the records of ops in the order given, as a set
Records(ops) == {ops[i] : i \in 1..Len(ops)}

\* C22: when a key k is absent from M0 and the last diff of X on k is
\* DELETE(k), compact_dict_diffs(X) contains DELETE(k) and a DictListener
\* whose snapshot is M0 raises the key error while applying that output,
\* although it applies X itself without raising.
C22_DeleteOfAbsentKeyRaises ==
    \A k \in DeletedAbsentKeys :
        /\ Diff(DELETE, k, None) \in Records(compact_dict_diffs(diffs))
        /\ ApplyAll("DictListener", compact_dict_diffs(diffs), S0).raised
        /\ ~ApplyAll("DictListener", diffs, S0).raised

\* M0 lacks x, X sets x and deletes it again after touching y
C22_Witness ==
    /\ "x" \in DeletedAbsentKeys
    /\ "y" \in TouchedKeys(diffs)
    /\ \E i \in 1..Len(diffs) : diffs[i][TYPE] = SET /\ diffs[i][INDEX] = "x"
    /\ ApplyAll("DictListener", compact_dict_diffs(diffs), S0).raised

(***************************************************************************)
(* SpecSquash.  squash_list_diffs (compaction.py) and its older copy       *)
(* squash_difftrack_results (utils.py) are generator functions: nothing    *)
(* of the body runs before the consumer asks for the first record.  The    *)
(* argument is any list of list diffs (the functions do not replay it);    *)
(* the payload of its k-th diff is k, None for a DELETE.  One action per   *)
(* path through the body between two suspension points.                    *)
(***************************************************************************)
SquashFunctions == {"squash_list_diffs", "squash_difftrack_results"}

\* types.py:18-22
SquashResults(operation, start, stop, payload) == <<operation, start, stop, payload>>
OPERATION == 1
START == 2
STOP == 3
PAYLOAD == 4

\* the payloads of a run, last first
PayloadsOf_reversed(batch) ==
    [i \in 1..Len(batch) |-> batch[Len(batch) + 1 - i][DATA]]

\* compaction.py:178-179 and 182-183: the payloads of a run, in order
PayloadsOf(batch) == [i \in 1..Len(batch) |-> batch[i][DATA]]

\* REPLACE encoded with an inclusive stop
_squash_single_inclusive_replace(batch) ==
    LET dtype == batch[1][TYPE]
        start == batch[1][INDEX]
    IN IF dtype = DELETE
       THEN SquashResults(dtype, start, start + Len(batch), <<>>)
       ELSE SquashResults(dtype, start, start + Len(batch) - 1, PayloadsOf(batch))

\* compaction.py:165-189 (and utils.py:104-127, the same body)
_squash_single_list_diffs_sequence(batch) ==
    LET dtype == batch[1][TYPE]
        start == batch[1][INDEX]
    IN IF dtype = INSERT
       THEN SquashResults(dtype, start, start + Len(PayloadsOf(batch)) - 1,
                          PayloadsOf(batch))
       ELSE IF dtype = REPLACE
       THEN SquashResults(dtype, start, start + Len(PayloadsOf(batch)),
                          PayloadsOf(batch))
       ELSE SquashResults(dtype, start, start + Len(batch), <<>>)

\* DELETEs merged when their indices go up by one
append_to_storage_rising_delete(prev, data) ==
    data[TYPE] = prev[TYPE] /\ prev[INDEX] + 1 = data[INDEX]

\* compaction.py:204-212 (utils.py:139-146)
append_to_storage(prev, data) ==
    IF data[TYPE] = prev[TYPE]
    THEN IF data[TYPE] = INSERT THEN prev[INDEX] + 1 = data[INDEX]
         ELSE IF data[TYPE] = DELETE THEN prev[INDEX] = data[INDEX]
         ELSE prev[INDEX] + 1 = data[INDEX]
    ELSE FALSE

\* utils.py:134 reads diffs[0] whatever the argument; compaction.py:196-197
\* return first when it is empty
ReadsFirst(fn) == fn = "squash_difftrack_results"

\* the arguments: every list of at most MaxSquash diffs over the indices
SquashArguments ==
    UNION {{[i \in 1..n |-> Diff(f[i][1], f[i][2],
                                 IF f[i][1] = DELETE THEN None ELSE i)] :
              f \in [1..n -> ListDiff \X (0..MaxIndex)]} : n \in 0..MaxSquash}

InitSquash ==
    /\ S0 = <<>>
    /\ diffs \in SquashArguments
    /\ compacted = <<>>
    /\ op_index_to_compacted_index = EmptyDict
    /\ IdleBounded
    /\ NewDispatcher
    /\ listener_class = "ListListener"
    /\ dispatched = <<>>
    /\ returned = <<>>
    /\ gets = 0
    /\ get_raised = FALSE
    /\ NoGenerator
    /\ IdleFanOut
    /\ squash_fn \in SquashFunctions
    /\ squash_pc = "start"
    /\ pos = 0
    /\ current_batch = <<>>
    /\ results = <<>>
    /\ batches = <<>>
    /\ IdleChain

SquashIdleRest ==
    UNCHANGED <<varsCompact, varsBounded, varsDispatch, varsListener,
                varsYield, varsChain, varsFanOut, squash_fn>>

\* compaction.py:196-197: the first next() on an empty argument returns
SquashReturnsEmpty ==
    /\ squash_pc = "start"
    /\ diffs = <<>>
    /\ ~ReadsFirst(squash_fn)
    /\ squash_pc' = "done"
    /\ UNCHANGED <<pos, current_batch, results, batches>>
    /\ SquashIdleRest

\* utils.py:134: diffs[0] of an empty list raises IndexError
SquashRaisesOnEmpty ==
    /\ squash_pc = "start"
    /\ diffs = <<>>
    /\ ReadsFirst(squash_fn)
    /\ squash_pc' = "raised"
    /\ UNCHANGED <<pos, current_batch, results, batches>>
    /\ SquashIdleRest

\* compaction.py:199 (utils.py:134): current_batch = [diffs[0]]
SquashStart ==
    /\ squash_pc = "start"
    /\ diffs # <<>>
    /\ current_batch' = <<diffs[1]>>
    /\ pos' = 1
    /\ squash_pc' = "loop"
    /\ UNCHANGED <<results, batches>>
    /\ SquashIdleRest

\* compaction.py:200-215: an iteration that appends to the run
SquashAppend ==
    /\ squash_pc = "loop"
    /\ pos < Len(diffs)
    /\ append_to_storage(current_batch[Len(current_batch)], diffs[pos + 1])
    /\ current_batch' = Append(current_batch, diffs[pos + 1])
    /\ pos' = pos + 1
    /\ UNCHANGED <<squash_pc, results, batches>>
    /\ SquashIdleRest

\* compaction.py:200-218: an iteration that yields the run and starts the
\* next one
SquashYield ==
    /\ squash_pc = "loop"
    /\ pos < Len(diffs)
    /\ ~append_to_storage(current_batch[Len(current_batch)], diffs[pos + 1])
    /\ results' = Append(results, _squash_single_list_diffs_sequence(current_batch))
    /\ batches' = Append(batches, current_batch)
    /\ current_batch' = <<diffs[pos + 1]>>
    /\ pos' = pos + 1
    /\ UNCHANGED squash_pc
    /\ SquashIdleRest

\* compaction.py:220-221: the last run is yielded and the generator ends
SquashLastYield ==
    /\ squash_pc = "loop"
    /\ pos = Len(diffs)
    /\ IF Len(current_batch) > 0
       THEN /\ results' = Append(results,
                                 _squash_single_list_diffs_sequence(current_batch))
            /\ batches' = Append(batches, current_batch)
       ELSE UNCHANGED <<results, batches>>
    /\ squash_pc' = "done"
    /\ UNCHANGED <<pos, current_batch>>
    /\ SquashIdleRest

NextSquash ==
    \/ SquashReturnsEmpty
    \/ SquashRaisesOnEmpty
    \/ SquashStart
    \/ SquashAppend
    \/ SquashYield
    \/ SquashLastYield

SpecSquash == InitSquash /\ [][NextSquash]_vars

RECURSIVE Flatten(_)
\* the runs joined in order
Flatten(runs) == IF runs = <<>> THEN <<>> ELSE Head(runs) \o Flatten(Tail(runs))

\* two adjacent diffs that belong to the same range record
SameRange(prev, curr) ==
    /\ curr[TYPE] = prev[TYPE]
    /\ curr[TYPE] \in {INSERT, REPLACE} => curr[INDEX] = prev[INDEX] + 1
    /\ curr[TYPE] = DELETE => curr[INDEX] = prev[INDEX]

\* every adjacent pair of the run belongs to the same range record
IsRun(batch) ==
    /\ batch # <<>>
    /\ \A i \in 1..(Len(batch) - 1) : SameRange(batch[i], batch[i + 1])

\* the position in the input of the last diff of the j-th yielded run
EndOfRun(j) == Len(Flatten(SubSeq(batches, 1, j)))

\* C23: the squash function splits its input into maximal runs, yielded in
\* input order with sizes summing to the input length: adjacent diffs are in
\* the same record iff they have the same kind and the index goes up by one
\* (INSERT, REPLACE) or stays (DELETE); any other adjacent pair starts a new
\* record.
C23_SplitsIntoMaximalRuns ==
    /\ squash_pc \in {"loop", "done"} =>
          /\ Len(results) = Len(batches)
          /\ \A j \in 1..Len(batches) :
                /\ IsRun(batches[j])
                /\ EndOfRun(j) < Len(diffs) =>
                      ~SameRange(diffs[EndOfRun(j)], diffs[EndOfRun(j) + 1])
                /\ results[j][OPERATION] = batches[j][1][TYPE]
                /\ results[j][START] = batches[j][1][INDEX]
    /\ squash_pc = "loop" =>
          /\ Flatten(batches) \o current_batch = SubSeq(diffs, 1, pos)
          /\ IsRun(current_batch)
    /\ squash_pc = "done" => Flatten(batches) = diffs

\* the generator has ended after yielding a run of two and a run of one
\* that is of the same kind but not contiguous with it
C23_Witness ==
    /\ squash_pc = "done"
    /\ Len(batches) = 2
    /\ Len(batches[1]) = 2
    /\ batches[2][1][TYPE] = batches[1][1][TYPE]
    /\ Len(diffs) = MaxSquash

\* the range record the encoding rules give a run of n diffs starting at s
RangeRecord(batch) ==
    LET s == batch[1][INDEX]
        n == Len(batch)
        kind == batch[1][TYPE]
    IN IF kind = INSERT THEN <<kind, s, s + n - 1, PayloadsOf(batch)>>
       ELSE IF kind = REPLACE THEN <<kind, s, s + n, PayloadsOf(batch)>>
       ELSE <<kind, s, s + n, <<>>>>

\* C24: for a run of n merged diffs starting at index s the range record has
\* start = s and, for INSERT, stop = s + n - 1 with the n payloads in input
\* order; for REPLACE, stop = s + n with the n payloads in input order; for
\* DELETE, stop = s + n with an empty payload list.
C24_RangeEncoding ==
    /\ Len(results) = Len(batches)
    /\ \A j \in 1..Len(results) : results[j] = RangeRecord(batches[j])

\* a REPLACE run of two was yielded after another record, and the
\* generator has ended
C24_Witness ==
    /\ squash_pc = "done"
    /\ Len(results) = 2
    /\ results[2][OPERATION] = REPLACE
    /\ Len(batches[2]) = 2
    /\ results[2][STOP] = results[2][START] + 2
    /\ results[2][PAYLOAD] = <<2, 3>>

\* a range record expanded as the claim describes: INSERT and REPLACE over
\* the indices start..stop inclusive with the payload vector (None where the
\* vector has no payload left), DELETE over the indices start..stop-1
ExpandInclusive(r) ==
    IF r[OPERATION] = DELETE
    THEN [i \in 1..(r[STOP] - r[START]) |-> Diff(DELETE, r[START] + i - 1, None)]
    ELSE [i \in 1..(r[STOP] - r[START] + 1) |->
             Diff(r[OPERATION], r[START] + i - 1,
                  IF i <= Len(r[PAYLOAD]) THEN r[PAYLOAD][i] ELSE None)]

\* a range record expanded by the encoding the records have: INSERT over
\* start..stop inclusive, REPLACE over start..stop-1, each with the payload
\* vector, DELETE as stop - start diffs at the index start
ExpandEncoded(r) ==
    IF r[OPERATION] = DELETE
    THEN [i \in 1..(r[STOP] - r[START]) |-> Diff(DELETE, r[START], None)]
    ELSE IF r[OPERATION] = REPLACE
    THEN [i \in 1..(r[STOP] - r[START]) |->
             Diff(REPLACE, r[START] + i - 1, r[PAYLOAD][i])]
    ELSE [i \in 1..(r[STOP] - r[START] + 1) |->
             Diff(INSERT, r[START] + i - 1, r[PAYLOAD][i])]

\* C25 as stated: expanding each range record of the output - INSERT and
\* REPLACE over the indices start..stop inclusive with the payload vector,
\* DELETE over the indices start..stop-1 - reproduces the input exactly.
C25_ExpandInclusiveReproducesInput ==
    squash_pc = "done" =>
        Flatten([j \in 1..Len(results) |-> ExpandInclusive(results[j])]) = diffs

\* C25 amended: expanding each range record of the output - INSERT over the
\* indices start..stop inclusive and REPLACE over the indices start..stop-1,
\* each with the payload vector, DELETE as stop - start diffs at the index
\* start - reproduces the input exactly.
C25_ExpandEncodedReproducesInput ==
    squash_pc = "done" =>
        Flatten([j \in 1..Len(results) |-> ExpandEncoded(results[j])]) = diffs

\* the generator has ended on an input that is a REPLACE followed by a run
\* of two DELETEs
C25_Witness ==
    /\ squash_pc = "done"
    /\ Len(results) = 2
    /\ results[1][OPERATION] = REPLACE
    /\ results[2][OPERATION] = DELETE
    /\ results[2][STOP] = results[2][START] + 2
    /\ Flatten([j \in 1..Len(results) |-> ExpandEncoded(results[j])]) = diffs

\* C26: on an empty diff list the squash function yields an empty stream
\* without raising and without reading diffs[0], both the exported
\* squash_list_diffs and utils.squash_difftrack_results.
C26_EmptyInputYieldsNothing ==
    diffs = <<>> /\ squash_pc # "start" =>
        /\ squash_pc = "done"
        /\ results = <<>>
        /\ pos = 0

(***************************************************************************)
(* SpecMapper.  A ListListener or DictListener wrapped by data_mapper; the *)
(* producer calls the wrapper with diffs that are valid on its container,  *)
(* the consumer flushes the listener.  The mapper is the caller's pure     *)
(* function; as in tests/test_utils.py:151-154 it maps None to None.       *)
(***************************************************************************)

\* the mapper handed to data_mapper
mapper(data) == IF data = None THEN None ELSE data + 10

\* the wrapper passing the payload on as it came
wrapped_unmapped(op) == op

\* utils.py:18-19, wrapped: the diff the listener is called with
wrapped(op) == Diff(op[TYPE], op[INDEX], mapper(op[DATA]))

InitMapper == InitListener

\* utils.py:18-19 with the listener's __call__ (listeners.py:29-32)
WrappedCall(dtype, index, data) ==
    /\ Len(_new_diffs) < MaxBuffered
    /\ _new_diffs' = Buffer(_new_diffs, wrapped(Diff(dtype, index, data)))
    /\ _data' = DataAfterCall(listener_class, wrapped(Diff(dtype, index, data)),
                              _data)
    /\ dispatched' = Append(dispatched, Diff(dtype, index, data))
    /\ returned' = <<>>
    /\ gets' = 0
    /\ get_raised' = FALSE
    /\ UNCHANGED <<listener_class, _max_size, _full_list, _listener_len, inbound,
                   forwarded, prev_forwarded>>
    /\ UNCHANGED <<varsCompact, varsDispatch, varsYield,
                   varsSquash, varsChain, varsFanOut>>

\* a ListDispatcher's diff through the wrapper
WrappedListCall ==
    /\ listener_class = "ListListener"
    /\ \E dtype \in ListDiff, i \in 0..MaxItems, v \in Payloads :
          /\ ValidOn(Diff(dtype, i, v), Logical)
          /\ dtype = INSERT => Len(Logical) < MaxItems
          /\ WrappedCall(dtype, i, IF dtype = DELETE THEN None ELSE v)

\* a DictDispatcher's diff through the wrapper
WrappedDictCall ==
    /\ listener_class = "DictListener"
    /\ \E dtype \in DictDiff, k \in Keys, v \in Payloads :
          /\ dtype = DELETE => k \in DOMAIN Logical
          /\ WrappedCall(dtype, k, IF dtype = DELETE THEN None ELSE v)

NextMapper == WrappedListCall \/ WrappedDictCall \/ ListenerGetNewDiffs

SpecMapper == InitMapper /\ [][NextMapper]_vars

\* the diff a listener behind data_mapper(f) is to receive for op
MappedDiff(op) == <<op[TYPE], op[INDEX], mapper(op[DATA])>>

\* C27: a listener wrapped by data_mapper(f) receives, for every diff
\* (kind, index, payload) delivered to the wrapper, exactly one diff
\* (kind, index, f(payload)), in the same order; a call of the wrapper
\* changes nothing but the listener's buffer, which grows by that one diff
\* whatever was delivered before.
C27_MapperForwardsMappedDiffs ==
    /\ [](_new_diffs = [i \in 1..Len(dispatched) |-> MappedDiff(dispatched[i])])
    /\ [][Len(dispatched') > Len(dispatched) =>
            /\ dispatched' = Append(dispatched, dispatched'[Len(dispatched')])
            /\ _new_diffs' = Append(_new_diffs,
                                    MappedDiff(dispatched'[Len(dispatched')]))
            /\ UNCHANGED <<_data, listener_class, varsCompact, varsDispatch,
                           varsYield, varsSquash, varsChain, varsFanOut>>]_vars

\* three diffs went through the wrapper since the last flush, a DELETE
\* among them, and the listener holds their mapped copies
C27_Witness ==
    /\ Len(dispatched) = 3
    /\ \E i \in 1..3 : dispatched[i][TYPE] = DELETE
    /\ \E i \in 1..3 : dispatched[i][DATA] = 2 /\ _new_diffs[i][DATA] = 12
    /\ _data # _DATA_FACTORY(listener_class)

(***************************************************************************)
(* SpecChain.  dispatcher -> BoundedListDiffHandler -> data_mapper ->      *)
(* innermost listener, the chain of tests/test_utils.py:147-200.  The      *)
(* innermost listener is a ListListener with an on_finalize_batch callback *)
(* or a plain function, which has no finalize_batch.  The chain is built   *)
(* before the first step; the producer registers the handler, inserts at   *)
(* the front inside and outside `with dispatcher:` scopes, and makes no    *)
(* finalize_batch call of its own.                                         *)
(***************************************************************************)
Innermosts == {"ListListener", "function"}

\* listeners.py:70-72: a Listener has the method, a function does not
InnermostFinalizeBatch(kind) ==
    IF kind = "ListListener" THEN "finalize_batch" ELSE "absent"

\* data_mapper not handing finalize_batch on
WrappedFinalizeBatch_dropped(listener_finalize_batch) == "absent"

\* utils.py:21-22: wrapped.finalize_batch = listener.finalize_batch, left
\* unset when the listener has none
WrappedFinalizeBatch(listener_finalize_batch) == listener_finalize_batch

\* utils.py:66-69
ListenerFinalizeBatchFunction(listener_finalize_batch) ==
    IF listener_finalize_batch = "absent" THEN "None" ELSE listener_finalize_batch

\* utils.py:98-100: whether the held function is called, and whether the
\* call of the handler's finalize_batch raises
HandlerFinalizeBatch(function) ==
    IF function # "None" THEN [called |-> TRUE, raised |-> FALSE]
    ELSE [called |-> FALSE, raised |-> FALSE]

\* listeners.py:70-72 with the callback set: one call of it per call of the
\* innermost listener's finalize_batch
CallbackCalls(handler_calls, function) ==
    IF HandlerFinalizeBatch(function).called THEN handler_calls ELSE 0

InitChain ==
    /\ IdleCompact
    /\ NewDispatcher
    /\ \E max_size \in 1..MaxWindow : NewBounded(max_size)
    /\ listener_class = "ListListener"
    /\ dispatched = <<>>
    /\ returned = <<>>
    /\ gets = 0
    /\ get_raised = FALSE
    /\ NoGenerator
    /\ IdleFanOut
    /\ IdleSquash
    /\ innermost \in Innermosts
    /\ wrapped_finalize_batch = WrappedFinalizeBatch(InnermostFinalizeBatch(innermost))
    /\ _listener_finalize_batch_function =
          ListenerFinalizeBatchFunction(wrapped_finalize_batch)
    /\ cb_calls = 0
    /\ exit_raised = FALSE

\* dispatchers.py:21-25 for the handler, which has a finalize_batch method
\* (utils.py:98)
ChainAddListener ==
    /\ _listeners = <<>>
    /\ AddListener(TRUE)

\* the producer's insert(0, v)
ChainApplyDiff ==
    /\ _listeners # <<>>
    /\ Len(admitted) < MaxBatchEmits
    /\ ApplyDiff

\* dispatchers.py:44-45 calling the handler: utils.py:72-95, each diff it
\* passes on going through wrapped (utils.py:18-19) to the innermost
\* listener (listeners.py:29-30) or function
ChainCallListener ==
    /\ pc = "deliver"
    /\ ~ListenersDone(li, _listeners)
    /\ ValidOn(diff[1], _full_list)
    /\ LET full == ApplyOne(diff[1], _full_list)
           f == Forward(diff[1], full, _listener_len, _max_size)
           sent == [i \in 1..Len(f.sent) |-> wrapped(f.sent[i])]
       IN /\ _full_list' = full
          /\ _listener_len' = f.len
          /\ forwarded' = sent
          /\ _new_diffs' = IF innermost = "ListListener"
                           THEN _new_diffs \o sent ELSE _new_diffs
    /\ inbound' = <<diff[1]>>
    /\ received' = [received EXCEPT ![_listeners[li]] = Append(@, diff[1])]
    /\ pc' = "in_listener"
    /\ UNCHANGED <<_max_size, _data, prev_forwarded>>
    /\ UNCHANGED <<diff, li, diff_origin, stack, varsQueue, varsRecursion,
                   varsListeners, varsFinalize, varsScope, _active>>
    /\ UNCHANGED <<varsCompact, varsListener, varsYield,
                   varsSquash, varsChain, varsFanOut>>

\* dispatchers.py:63-64 and 49-56, __exit__ calls finalize_batch; every
\* registered finalizer is the handler's finalize_batch (utils.py:98-100)
ChainExitScope ==
    /\ pc = "idle"
    /\ in_scope
    /\ in_scope' = FALSE
    /\ fired' = FinalizerCalls(_should_finalize, _batch_finalizers)
    /\ cb_calls' = cb_calls +
          CallbackCalls(Len(FinalizerCalls(_should_finalize, _batch_finalizers)),
                        _listener_finalize_batch_function)
    /\ exit_raised' =
          (\/ exit_raised
           \/ /\ FinalizerCalls(_should_finalize, _batch_finalizers) # <<>>
              /\ HandlerFinalizeBatch(_listener_finalize_batch_function).raised)
    /\ _should_finalize' = FALSE
    /\ popped_since_finalize' = FALSE
    /\ UNCHANGED <<scope_admitted, varsQueue, varsLoop, varsRecursion,
                   varsListeners, _active, received>>
    /\ UNCHANGED <<innermost, wrapped_finalize_batch,
                   _listener_finalize_batch_function>>
    /\ UNCHANGED <<varsCompact, varsBounded, varsListener, varsYield,
                   varsSquash, varsFanOut>>

NextChain ==
    \/ ChainAddListener
    \/ ChainApplyDiff
    \/ PopDiff
    \/ ChainCallListener
    \/ ListenerReturns
    \/ ForDone
    \/ Drained
    \/ EnterScope
    \/ ChainExitScope

SpecChain == InitChain /\ [][NextChain]_vars

\* C28: batch finalization passes through the chain.  Leaving a scope that
\* admitted at least one edit calls the innermost listener's
\* on_finalize_batch callback exactly once, and the callback is not called
\* while the scope is open; when the innermost listener is a function
\* without a finalize_batch hook, leaving the scope calls nothing and does
\* not raise.
C28_FinalizationPassesThroughChain ==
    /\ [](~exit_raised)
    /\ [][(in_scope /\ ~in_scope' /\ scope_admitted) =>
            cb_calls' = cb_calls + (IF innermost = "ListListener" THEN 1 ELSE 0)]_vars
    /\ [][(in_scope' \/ (in_scope /\ innermost = "function")) =>
            cb_calls' = cb_calls]_vars

\* the callback was called on leaving a scope in which the handler trimmed
\* the innermost listener, and the next scope is open with an edit admitted
C28_Witness ==
    /\ innermost = "ListListener"
    /\ cb_calls = 1
    /\ in_scope
    /\ scope_admitted
    /\ _should_finalize
    /\ Len(admitted) = MaxBatchEmits
    /\ Len(_new_diffs) > Len(admitted)
    /\ \E i \in 1..Len(_new_diffs) : _new_diffs[i][TYPE] = DELETE

\* C30: when the handler receives INSERT(i, v) with i < max_size while the
\* inner length counter already equals max_size, it passes on exactly two
\* diffs, INSERT(i, v) and then DELETE(max_size, None); when the counter is
\* below max_size it passes on INSERT(i, v) alone.
C30_InsertInFullWindowTrims ==
    [][(/\ inbound' # <<>>
        /\ inbound'[1][TYPE] = INSERT
        /\ inbound'[1][INDEX] < _max_size
        /\ BoundedCall(inbound'[1][TYPE], inbound'[1][INDEX], inbound'[1][DATA]))
       => /\ _listener_len <= _max_size
          /\ forwarded' = IF _listener_len = _max_size
                          THEN <<inbound'[1], <<DELETE, _max_size, None>>>>
                          ELSE <<inbound'[1]>>
          /\ _new_diffs' = _new_diffs \o forwarded']_vars

\* an INSERT at index 1 of a full window of two was passed on with the trim
\* behind it
C30_Witness ==
    /\ _max_size = 2
    /\ inbound = <<<<INSERT, 1, 2>>>>
    /\ forwarded = <<<<INSERT, 1, 2>>, <<DELETE, 2, None>>>>
    /\ Len(_full_list) = 3
    /\ _listener_len = 2

(***************************************************************************)
(* SpecRecover.  The fixture of tests/test_utils.py:33-42: a               *)
(* BoundedListDiffHandler with max_size 2 over a ListListener, fed by a    *)
(* producer whose edits are valid on its list; the consumer flushes the    *)
(* listener at any moment.  inbound keeps every edit handled, in order;    *)
(* the payload of the k-th edit is k ('a' is 1, 'b' is 2, 'c' is 3).       *)
(***************************************************************************)

\* tests/test_utils.py:41
FixtureMaxSize == 2

InitRecover ==
    /\ IdleCompact
    /\ NewDispatcher
    /\ IdleListener
    /\ NewBounded(FixtureMaxSize)

\* utils.py:72-95 with the listener's __call__ (listeners.py:29-32) for
\* every diff passed on
HandlerCall(dtype, index, data) ==
    /\ Len(inbound) < MaxScript
    /\ ValidOn(Diff(dtype, index, data), _full_list)
    /\ dtype = INSERT => Len(_full_list) < MaxFull
    /\ LET op == Diff(dtype, index, data)
           full == ApplyOne(op, _full_list)
           f == Forward(op, full, _listener_len, _max_size)
       IN /\ _full_list' = full
          /\ _listener_len' = f.len
          /\ _new_diffs' = _new_diffs \o f.sent
          /\ forwarded' = f.sent
    /\ inbound' = Append(inbound, Diff(dtype, index, data))
    /\ UNCHANGED <<_max_size, _data, prev_forwarded>>
    /\ UNCHANGED <<varsCompact, varsDispatch, varsListener, varsYield,
                   varsSquash, varsChain, varsFanOut>>

HandlerInsert == \E i \in 0..MaxFull : HandlerCall(INSERT, i, Len(inbound) + 1)

HandlerReplace == \E i \in 0..MaxFull : HandlerCall(REPLACE, i, Len(inbound) + 1)

HandlerDelete == \E i \in 0..MaxFull : HandlerCall(DELETE, i, None)

NextRecover == HandlerInsert \/ HandlerReplace \/ HandlerDelete \/ GetNewDiffs

SpecRecover == InitRecover /\ [][NextRecover]_vars

\* INSERT(0,'a'), INSERT(1,'b'), INSERT(0,'c')
ThreeInserts == <<<<INSERT, 0, 1>>, <<INSERT, 1, 2>>, <<INSERT, 0, 3>>>>

\* the same followed by DELETE(0), DELETE(1)
ThenTwoDeletes == ThreeInserts \o <<<<DELETE, 0, None>>, <<DELETE, 1, None>>>>

\* all that was passed on has been flushed into the snapshot
Flushed == _new_diffs = <<>>

\* C29 as stated: with max_size = 2, after INSERT(0,'a'), INSERT(1,'b'),
\* INSERT(0,'c') and a flush the inner snapshot is ['c','a']; after then
\* DELETE(0), DELETE(1) and a flush it is ['b'].
C29_DeletesLeaveB ==
    (_max_size = 2 /\ Flushed) =>
        /\ inbound = ThreeInserts => _data = <<3, 1>>
        /\ inbound = ThenTwoDeletes => _data = <<2>>

\* C29 amended: with max_size = 2, after INSERT(0,'a'), INSERT(1,'b'),
\* INSERT(0,'c') and a flush the inner snapshot is ['c','a']; after then
\* DELETE(0), DELETE(1) and a flush it is ['a'].
C29_DeletesLeaveA ==
    (_max_size = 2 /\ Flushed) =>
        /\ inbound = ThreeInserts => _data = <<3, 1>>
        /\ inbound = ThenTwoDeletes => _data = <<1>>

\* the five edits were handled, the first DELETE re-exposed 'b', and only
\* the diffs of the two DELETEs were flushed last
C29_Witness ==
    /\ _max_size = 2
    /\ inbound = ThenTwoDeletes
    /\ Flushed
    /\ _full_list = <<1>>
    /\ _data = <<1>>
    /\ _listener_len = 1

(***************************************************************************)
(* SpecBounded, continued: what a DELETE or REPLACE inside the window      *)
(* passes on, and the counter against the inner listener.                  *)
(***************************************************************************)
\* C31: on DELETE(i) with i < max_size the handler passes on exactly
\* DELETE(i) and then INSERT(max_size - 1, F[max_size - 1]), F the shadow
\* list after the deletion, when F still has at least max_size elements,
\* and DELETE(i) alone when F is shorter; a REPLACE(i, v) with i < max_size
\* is passed on alone.
C31_DeleteInWindowReexposes ==
    [][(/\ inbound' # <<>>
        /\ inbound'[1][TYPE] \in {DELETE, REPLACE}
        /\ inbound'[1][INDEX] < _max_size
        /\ BoundedCall(inbound'[1][TYPE], inbound'[1][INDEX], inbound'[1][DATA]))
       => /\ forwarded' =
                IF inbound'[1][TYPE] = REPLACE
                THEN <<inbound'[1]>>
                ELSE IF Len(_full_list') >= _max_size
                THEN <<inbound'[1],
                       <<INSERT, _max_size - 1, _full_list'[_max_size]>>>>
                ELSE <<inbound'[1]>>
          /\ _new_diffs' = _new_diffs \o forwarded']_vars

\* a DELETE at the front of a window of two over a shadow list of three
\* was passed on with the INSERT of the element that moved into the window
C31_Witness ==
    /\ _max_size = 2
    /\ inbound = <<<<DELETE, 0, None>>>>
    /\ Len(_full_list) = 2
    /\ forwarded = <<<<DELETE, 0, None>>, <<INSERT, 1, _full_list[2]>>>>
    /\ _listener_len = 2

\* the number of diffs of one kind in a list of diffs
CountOf(ops, dtype) == Cardinality({p \in 1..Len(ops) : ops[p][TYPE] = dtype})

\* the length the inner list has once the pending buffer is applied
LengthOnceFlushed ==
    Len(_data) + CountOf(_new_diffs, INSERT) - CountOf(_new_diffs, DELETE)

\* C32: however inbound edits and flushes of the inner listener interleave,
\* the handler's counter equals the length of the inner snapshot plus the
\* number of INSERTs minus the number of DELETEs in the inner pending
\* buffer, the length the inner list has once flushed, and it never exceeds
\* max_size once an inbound edit has been handled.
C32_CounterTracksInnerLength ==
    /\ _listener_len = LengthOnceFlushed
    /\ _listener_len = Len(ApplyDiffs(_new_diffs, _data).list)
    /\ PendingApplies
    /\ _listener_len <= _max_size

\* a trim and a re-exposure are both pending over a flushed snapshot: the
\* buffer holds diffs the handler added itself, of both kinds
C32_Witness ==
    /\ _data # <<>>
    /\ Len(forwarded) = 2
    /\ forwarded[2][TYPE] = INSERT
    /\ \E p \in 1..(Len(_new_diffs) - 1) :
           /\ _new_diffs[p][TYPE] = INSERT
           /\ _new_diffs[p + 1] = <<DELETE, _max_size, None>>
    /\ _listener_len = _max_size
    /\ Len(_new_diffs) > 2

(***************************************************************************)
(* SpecCompact, continued: what a REPLACE does to the entry its index is   *)
(* bound to, what follows a DELETE that stays in the output, and a run of  *)
(* INSERTs followed by one DELETE.                                         *)
(***************************************************************************)
\* the op being fed by the step
NextOp == diffs'[Len(diffs')]

\* the entry of the output the index is bound to (compaction.py:90-91)
BoundEntry(index) == compacted[op_index_to_compacted_index[index] + 1]

\* the index is bound to an INSERT or REPLACE entry of the output
BoundToWrite(index) ==
    /\ index \in DOMAIN op_index_to_compacted_index
    /\ BoundEntry(index)[TYPE] # DELETE

\* C33: a REPLACE whose target element is bound to an earlier INSERT or
\* REPLACE entry of the output adds no new entry: the entry keeps its kind,
\* its original index and its place in the output and only its payload
\* becomes the later one, even when INSERTs in between shifted the element
\* (so the output order can differ from the input order); the entry is the
\* one that wrote the value the element holds.
C33_ReplaceRewritesBoundEntry ==
    /\ compact_list_diffs(<<<<REPLACE, 3, 1>>, <<INSERT, 2, 2>>,
                            <<INSERT, 2, 3>>, <<REPLACE, 5, 4>>>>)
           = <<<<REPLACE, 3, 4>>, <<INSERT, 2, 2>>, <<INSERT, 2, 3>>>>
    /\ [][(/\ diffs' # diffs
           /\ NextOp[TYPE] = REPLACE
           /\ BoundToWrite(NextOp[INDEX]))
          => LET p == op_index_to_compacted_index[NextOp[INDEX]] + 1
             IN /\ compacted[p][DATA] = Current[NextOp[INDEX] + 1]
                /\ compacted' = [compacted EXCEPT ![p] =
                                    <<compacted[p][TYPE], compacted[p][INDEX],
                                      NextOp[DATA]>>]
                /\ UNCHANGED op_index_to_compacted_index]_vars

\* [REPLACE(1, x), INSERT(0, y), INSERT(0, yy), REPLACE(3, z)] on a start of
\* two elements has become [REPLACE(1, z), INSERT(0, y), INSERT(0, yy)]
C33_Witness ==
    /\ Len(S0) = 2
    /\ diffs = <<<<REPLACE, 1, 1>>, <<INSERT, 0, 2>>, <<INSERT, 0, 3>>,
                 <<REPLACE, 3, 4>>>>
    /\ compacted = <<<<REPLACE, 1, 4>>, <<INSERT, 0, 2>>, <<INSERT, 0, 3>>>>

\* the last op fed was a DELETE and it was appended to the output
LastDeleteKept ==
    /\ diffs # <<>>
    /\ diffs[Len(diffs)][TYPE] = DELETE
    /\ compacted # <<>>
    /\ compacted[Len(compacted)] = diffs[Len(diffs)]

\* C34: compact_list_diffs never combines an op with an earlier DELETE at
\* the same position: an op whose index is bound to a DELETE entry of the
\* output, and any REPLACE, DELETE or INSERT that follows a DELETE kept in
\* the output at the same index, is appended as a new entry and the entries
\* before it stay as they are; an op that is not appended is combined
\* with an INSERT or REPLACE entry; no step removes a DELETE entry; and
\* [DELETE(i), REPLACE(i, v)] and [DELETE(i), DELETE(i)] are returned
\* unchanged.
C34_NothingCombinesWithDelete ==
    /\ \A i \in 0..MaxInit :
           /\ compact_list_diffs(<<<<DELETE, i, None>>, <<REPLACE, i, 2>>>>)
                 = <<<<DELETE, i, None>>, <<REPLACE, i, 2>>>>
           /\ compact_list_diffs(<<<<DELETE, i, None>>, <<DELETE, i, None>>>>)
                 = <<<<DELETE, i, None>>, <<DELETE, i, None>>>>
    /\ [][diffs' # diffs =>
            /\ ((\/ /\ NextOp[INDEX] \in DOMAIN op_index_to_compacted_index
                    /\ BoundEntry(NextOp[INDEX])[TYPE] = DELETE
                 \/ /\ LastDeleteKept
                    /\ NextOp[INDEX] = diffs[Len(diffs)][INDEX])
                => compacted' = Append(compacted, NextOp))
            /\ compacted' # Append(compacted, NextOp)
                => BoundToWrite(NextOp[INDEX])
            /\ CountType(compacted', DELETE) >= CountType(compacted, DELETE)
         ]_vars

\* a REPLACE came right after a DELETE at its index, behind an earlier op:
\* both are in the output, the DELETE in front of the REPLACE
C34_Witness ==
    /\ Len(diffs) >= 3
    /\ diffs[Len(diffs) - 1][TYPE] = DELETE
    /\ diffs[Len(diffs)][TYPE] = REPLACE
    /\ diffs[Len(diffs)][INDEX] = diffs[Len(diffs) - 1][INDEX]
    /\ Len(compacted) >= 3
    /\ compacted[Len(compacted) - 1] = diffs[Len(diffs) - 1]
    /\ compacted[Len(compacted)] = diffs[Len(diffs)]

\* every diff of the list is an INSERT
AllInserts(ops) == \A p \in 1..Len(ops) : ops[p][TYPE] = INSERT

\* the payloads of a list of diffs, in order
DataOf(ops) == [p \in 1..Len(ops) |-> ops[p][DATA]]

\* a sequence without the elements equal to v, the rest in order
Without(seq, v) == SelectSeq(seq, LAMBDA x : x # v)

\* tests/test_compaction.py:318-332
InsertReorder2 ==
    <<<<INSERT, 0, 2>>, <<INSERT, 0, 3>>, <<INSERT, 1, 4>>, <<INSERT, 0, 7>>,
      <<INSERT, 0, 8>>, <<DELETE, 2, 10>>>>

\* C35: for an input made of a valid run of INSERTs followed by one DELETE
\* that removes an element the run inserted, compact_list_diffs returns
\* |X| - 2 entries: the DELETE and the INSERT that created the removed
\* element are gone, the other INSERTs keep their relative order, and their
\* indices are such that replay gives the final sequence of X; an
\* INSERT-only input is returned unchanged.
C35_DeleteCancelsItsInsert ==
    /\ AllInserts(diffs) => compacted = diffs
    /\ (/\ Len(diffs) >= 2
        /\ AllInserts(SubSeq(diffs, 1, Len(diffs) - 1))
        /\ diffs[Len(diffs)][TYPE] = DELETE
        /\ Replay(SubSeq(diffs, 1, Len(diffs) - 1), S0)
               .list[diffs[Len(diffs)][INDEX] + 1] > 0)
       => LET run == SubSeq(diffs, 1, Len(diffs) - 1)
              removed == Replay(run, S0).list[diffs[Len(diffs)][INDEX] + 1]
          IN /\ Len(compacted) = Len(diffs) - 2
             /\ AllInserts(compacted)
             /\ DataOf(compacted) = Without(DataOf(run), removed)
             /\ Replay(compacted, S0).ok
             /\ Replay(compacted, S0).list = Current
    /\ LET out == compact_list_diffs(InsertReorder2)
       IN /\ Len(out) = 4
          /\ DataOf(out) = <<2, 4, 7, 8>>
          /\ Replay(out, <<>>).list = <<8, 7, 4, 2>>

\* three INSERTs on a non-empty start, then a DELETE of the element the
\* second INSERT created: two INSERTs are left and one of them was
\* re-indexed
C35_Witness ==
    /\ S0 # <<>>
    /\ Len(diffs) = 4
    /\ AllInserts(SubSeq(diffs, 1, 3))
    /\ diffs[4][TYPE] = DELETE
    /\ Replay(SubSeq(diffs, 1, 3), S0).list[diffs[4][INDEX] + 1] = 2
    /\ DataOf(compacted) = <<1, 3>>
    /\ compacted # <<diffs[1], diffs[3]>>

(***************************************************************************)
(* SpecFanOut.  One dispatcher with up to MaxListeners ListListeners (no   *)
(* callbacks) and a producer that edits a list and sends every edit        *)
(* through apply_diff; the payload of the k-th edit is k.  A consumer      *)
(* calls get_new_diffs of any listener at any moment at which code outside *)
(* the dispatcher runs: between two apply_diff calls, or from the          *)
(* listener that is being called.                                          *)
(***************************************************************************)
InitFanOut == InitDispatch

\* the list of the producer: its edits so far, applied in order
ProducerList == Replay(admitted, <<>>).list

\* dispatchers.py:21-25 for a ListListener, which has a finalize_batch
\* method (listeners.py:70)
FanOutAddListener ==
    /\ AddListener(TRUE)

\* dispatchers.py:34-41, apply_diff called by the producer with an edit
\* that is valid on its list, while no call is in progress
FanOutApplyDiff(dtype, index) ==
    /\ pc = "idle"
    /\ Len(admitted) < MaxFanOutEmits
    /\ AssertionHolds(_apply_diff_recursion)
    /\ LET data == IF dtype = DELETE THEN None ELSE Len(admitted) + 1
           op == Diff(dtype, index, data)
       IN /\ ValidOn(op, ProducerList)
          /\ _diffs_to_apply' = Append(_diffs_to_apply, op)
          /\ admitted' = Append(admitted, op)
    /\ _apply_diff_recursion' = _apply_diff_recursion + 1
    /\ origin' = Append(origin, None)
    /\ accepted' = accepted + 1
    /\ max_nesting' = Max(max_nesting, 1)
    /\ scope_admitted' = (scope_admitted \/ in_scope)
    /\ IF ReturnsEarly(_apply_diff_recursion + 1)
       THEN UNCHANGED <<_active, _should_finalize, pc>>
       ELSE /\ _active' = TRUE
            /\ _should_finalize' = TRUE
            /\ pc' = "loop"
    /\ UNCHANGED <<diff, li, diff_origin, stack, asserted, listener_raised,
                   varsListeners,
                   popped_since_finalize, fired, in_scope, received>>
    /\ UNCHANGED <<varsCompact, varsBounded, varsListener, varsYield,
                   varsSquash, varsChain, varsFanOut>>

FanOutInsert == \E i \in 0..MaxFanOutEmits : FanOutApplyDiff(INSERT, i)
FanOutReplace == \E i \in 0..MaxFanOutEmits : FanOutApplyDiff(REPLACE, i)
FanOutDelete == \E i \in 0..MaxFanOutEmits : FanOutApplyDiff(DELETE, i)

\* dispatchers.py:44-45 with listeners.py:29-30: the next listener is
\* called with the diff and buffers it
FanOutCallListener ==
    /\ pc = "deliver"
    /\ ~ListenersDone(li, _listeners)
    /\ received' = [received EXCEPT ![_listeners[li]] = Append(@, diff[1])]
    /\ listener_new_diffs' =
          [listener_new_diffs EXCEPT ![_listeners[li]] = Buffer(@, diff[1])]
    /\ pc' = "in_listener"
    /\ UNCHANGED <<diff, li, diff_origin, stack, varsQueue, varsRecursion,
                   varsListeners, varsFinalize, varsScope, _active>>
    /\ UNCHANGED <<varsCompact, varsBounded, varsListener, varsYield,
                   varsSquash, varsChain, listener_data>>

\* listeners.py:58-62, get_new_diffs of listener k
FanOutGetNewDiffs(k) ==
    /\ pc \in {"idle", "in_listener"}
    /\ listener_new_diffs[k] # <<>>
    /\ listener_new_diffs' =
          [listener_new_diffs EXCEPT ![k] = ClearedBuffer(@)]
    /\ listener_data' =
          [listener_data EXCEPT
              ![k] = ApplyDiffs(listener_new_diffs[k], @).list]
    /\ UNCHANGED <<varsCompact, varsBounded, varsDispatch, varsListener,
                   varsYield, varsSquash, varsChain>>

FanOutFlush == \E k \in 1..Len(_listeners) : FanOutGetNewDiffs(k)

NextFanOut ==
    \/ FanOutAddListener
    \/ FanOutInsert
    \/ FanOutReplace
    \/ FanOutDelete
    \/ PopDiff
    \/ FanOutCallListener
    \/ ListenerReturns
    \/ ForDone
    \/ Drained
    \/ FanOutFlush

SpecFanOut == InitFanOut /\ [][NextFanOut]_vars

\* the list listener k has once its pending buffer is applied
Pending(k) == ApplyDiffs(listener_new_diffs[k], listener_data[k])

C37_IdleMeansDrained ==
    (pc = "idle" /\ ~listener_raised) =>
        /\ _diffs_to_apply = <<>>
        /\ _apply_diff_recursion = 0
        /\ ~asserted
        /\ \A k \in Registered : received[k] = admitted

\* an outermost call during which listeners called apply_diff has
\* returned: two listeners have each been called with all three diffs
C37_Witness ==
    /\ pc = "idle"
    /\ ~listener_raised
    /\ Len(_listeners) = 2
    /\ Len(admitted) >= 3
    /\ max_nesting >= 2
    /\ received[1] = admitted
    /\ received[2] = admitted
    /\ _diffs_to_apply = <<>>
    /\ _apply_diff_recursion = 0

\* re-entrant apply_diff calls accepted since the outermost call began
ReentrantAccepted == accepted - 1

\* C38: within one outermost apply_diff call at most RecursionLimit - 1 = 9
\* re-entrant apply_diff calls are accepted in total, whatever their real
\* nesting: the counter is incremented by each re-entrant call and only
\* reset when the outermost call finishes, so the 10th re-entrant call
\* fails the assertion, also when every re-entrant call came from a
\* separate listener invocation (the frames are then never more than two
\* deep).
C38_NineReentrantCallsPerOutermostCall ==
    /\ [](pc # "idle" => /\ accepted >= 1
                         /\ ReentrantAccepted <= RecursionLimit - 1
                         /\ _apply_diff_recursion = 1 + ReentrantAccepted)
    /\ [][(pc = "in_listener" /\ admitted' # admitted)
          => /\ _apply_diff_recursion' = _apply_diff_recursion + 1
             /\ ReentrantAccepted < RecursionLimit - 1]_vars
    /\ [][_apply_diff_recursion' # _apply_diff_recursion
          => \/ _apply_diff_recursion' = _apply_diff_recursion + 1
             \/ /\ _apply_diff_recursion' = 0
                /\ pc = "loop" /\ _diffs_to_apply = <<>> /\ stack = <<>>
                /\ pc' = "idle"]_vars
    /\ [][(pc = "in_listener" /\ ReentrantAccepted = RecursionLimit - 1)
          => admitted' = admitted]_vars
    /\ [][(pc = "in_listener" /\ asserted' /\ ~asserted)
          => /\ ReentrantAccepted = RecursionLimit - 1
             /\ Len(stack) = 0]_vars

\* one listener has been called with ten diffs, one after the other, and
\* the call it made while it received the tenth failed the assertion with
\* two frames on the stack
C38_Witness ==
    /\ asserted
    /\ Len(_listeners) = 1
    /\ Len(received[1]) = RecursionLimit
    /\ Len(admitted) = RecursionLimit
    /\ _diffs_to_apply = <<>>
    /\ accepted = RecursionLimit
    /\ max_nesting = 2

\* the step is an apply_diff call that only enqueues its diff and returns
OnlyEnqueues ==
    /\ Len(admitted') = Len(admitted) + 1
    /\ _diffs_to_apply' = Append(_diffs_to_apply, admitted'[Len(admitted')])
    /\ _apply_diff_recursion' = _apply_diff_recursion + 1
    /\ asserted' = asserted

\* the step is an apply_diff call that fails the assertion
FailsAssertion ==
    /\ asserted'
    /\ ~AssertionHolds(_apply_diff_recursion)
    /\ UNCHANGED <<admitted, _diffs_to_apply, _apply_diff_recursion>>

\* a call of a listener raises: the exception leaves apply_diff with the
\* counter as it was, which is not 0; from then on no call is ever in
\* progress and no listener is called with a diff
RaiseLeavesCounter ==
    /\ [][(listener_raised' /\ ~listener_raised)
          => /\ pc = "in_listener"
             /\ pc' = "idle"
             /\ _apply_diff_recursion' = _apply_diff_recursion
             /\ _apply_diff_recursion >= 1]_vars
    /\ [](listener_raised => pc = "idle" /\ _apply_diff_recursion >= 1)
    /\ [][listener_raised => received' = received]_vars

\* C39 as stated: if a listener raises during delivery, the exception
\* propagates out of apply_diff and the counter is left non-zero: every
\* later apply_diff call only enqueues its diff and returns without
\* delivering anything, and the dispatcher never delivers a diff again.
C39_LaterCallsOnlyEnqueue ==
    /\ RaiseLeavesCounter
    /\ [][listener_raised => OnlyEnqueues]_vars

\* C39 amended: every later apply_diff call only enqueues its diff and
\* returns without delivering anything as long as the counter is below
\* RecursionLimit, and fails the assertion, enqueuing nothing, once the
\* counter has reached RecursionLimit; the dispatcher never delivers a diff
\* again.
C39_LaterCallsEnqueueOrAssert ==
    /\ RaiseLeavesCounter
    /\ [][listener_raised =>
            \/ AssertionHolds(_apply_diff_recursion) /\ OnlyEnqueues
            \/ FailsAssertion]_vars

\* the second of two listeners raised on the first diff; two later calls
\* have only queued their diffs behind it
C39_Witness ==
    /\ listener_raised
    /\ ~asserted
    /\ Len(_listeners) = 2
    /\ received[1] = <<admitted[1]>>
    /\ received[2] = <<admitted[1]>>
    /\ Len(admitted) = 3
    /\ _diffs_to_apply = SubSeq(admitted, 2, 3)
    /\ _apply_diff_recursion = 3

(***************************************************************************)
(* SpecKeyError.  A DictListener behind a DictDispatcher whose producer    *)
(* sets and deletes any key: the dispatcher passes a DELETE on without     *)
(* looking at the key (dispatchers.py:86-87), so the listener can buffer   *)
(* a DELETE of a key its dict will not hold, and get_new_diffs then        *)
(* raises KeyError (listeners.py:99).                                      *)
(***************************************************************************)
InitKeyError ==
    /\ InitListener
    /\ listener_class = "DictListener"

\* dispatchers.py:83-84, __setitem__
AnySet ==
    \E k \in Keys, v \in Payloads : ListenerCall(SET, k, v)

\* dispatchers.py:86-87, __delitem__
AnyDelete ==
    \E k \in Keys : ListenerCall(DELETE, k, None)

NextKeyError == AnySet \/ AnyDelete \/ ListenerGetNewDiffs

SpecKeyError == InitKeyError /\ [][NextKeyError]_vars

\* the diffs of X in front of the first one that is not valid when the
\* diffs before it have been applied to s
RECURSIVE ValidPrefix(_, _)
ValidPrefix(X, s) ==
    IF X = <<>> \/ ~DictReplay(<<Head(X)>>, s).ok THEN <<>>
    ELSE <<Head(X)>> \o ValidPrefix(Tail(X), DictReplay(<<Head(X)>>, s).map)

\* C40: if applying a buffered diff fails inside get_new_diffs (a DELETE of
\* a key absent from a DictListener's snapshot), the error propagates with
\* the pending buffer already emptied and the snapshot holding the effect
\* of exactly the buffered diffs before the failing one; the failing diff
\* and all later buffered diffs are lost: a later get_new_diffs returns
\* only diffs received after the failing call.
C40_FailedFlushLosesBuffer ==
    [][IsGetNewDiffs =>
          /\ get_raised' <=> ~DictReplay(dispatched, _data).ok
          /\ _new_diffs' = <<>>
          /\ _data' = DictReplay(ValidPrefix(dispatched, _data), _data).map
          /\ returned' = IF get_raised' THEN <<>> ELSE dispatched
          /\ get_raised' => Len(ValidPrefix(dispatched, _data)) < Len(dispatched)
      ]_vars

\* get_new_diffs has raised on the second of three buffered diffs: the
\* snapshot holds the key the first one set and nothing else, the buffer
\* is empty
C40_Witness ==
    /\ get_raised
    /\ gets = 1
    /\ _new_diffs = <<>>
    /\ returned = <<>>
    /\ dispatched = <<>>
    /\ _data # EmptyDict
    /\ DOMAIN _data # Keys

====
